---- MODULE Spec2Model ----
(***************************************************************************)
(* A model of vclusterops: the revive-database workflow (revive_db.go),    *)
(* its two domain algorithms (restore-point resolution and host/node       *)
(* realignment), and the start-node operation run by the pipeline engine.  *)
(*                                                                         *)
(* Specifications:                                                         *)
(*   Spec         the VReviveDatabase workflow, one engine operation at a  *)
(*                time                                                     *)
(*   SpecResolve  validateRestoreOptions and findSpecifiedRestorePoint     *)
(*                applied to bounded policies and restore-point lists      *)
(*   SpecRealign  generateReviveVDB applied to bounded topologies and      *)
(*                host lists                                               *)
(*   SpecEngine   one engine run over start-node operations, phase by      *)
(*                phase and host by host                                   *)
(*   SpecPrepare  prepare of one start-node operation applied to bounded   *)
(*                target lists, topologies and contexts                    *)
(*   SpecSetConfig, SpecWorkflows                                          *)
(*                VSetConfigurationParameters alone, and side by side with *)
(*                VReviveDatabase                                          *)
(***************************************************************************)
EXTENDS Integers, Sequences, FiniteSets, Bags, TLC

(***************************************************************************)
(* Bounds of the model.                                                    *)
(***************************************************************************)
\* longest restore-point list the listing operation leaves in the context
MaxRestorePoints == 3
\* most nodes in the topology read from communal storage
MaxNodes == 3
\* longest host list the user supplies
MaxHosts == 3
\* longest instruction list of the engine run of SpecEngine
MaxOps == 2
\* hosts an operation of SpecEngine targets
NumTargets == 3

VARIABLES
    pc,             \* position of the modelled caller
    options,        \* VReviveDatabaseOptions
    clusterOpEngine,\* the engine made last: its instructions and execContext
    trace,          \* the operations the engine runs have run, in order
    found,          \* (validatedRestorePointID, findErr) of findSpecifiedRestorePoint
    ret,            \* (dbInfo, vdbPtr, err) returned by VReviveDatabase
    nodes,          \* the VCoordinationNode objects, by identity
    vdb,            \* the VCoordinationDatabase the workflow owns
    newVDB,         \* newVDB of generateReviveVDB
    oldHosts,       \* oldHosts of generateReviveVDB
    curOp,          \* the operation the engine is running: its request state
    dispatcher,     \* execContext.dispatcher: the hosts set up, the requests in flight
    phaseLog,       \* the phases the engine run has completed, in order
    runError        \* the error clusterOpEngine.run returns

engineVars == <<clusterOpEngine, trace>>
realignVars == <<nodes, vdb, newVDB, oldHosts>>
opVars == <<curOp, dispatcher, phaseLog, runError>>
vars == <<pc, options, ret, found, engineVars, realignVars, opVars>>

(***************************************************************************)
(* Error values.  Every error is a record with a kind; nil is NilErr.      *)
(***************************************************************************)
NilErr == [kind |-> "nil"]

\* fmt.Errorf(msg)
Errorf(msg) == [kind |-> "error", msg |-> msg]

\* fmt.Errorf(msg + " %w", cause)
Wrap(msg, cause) == [kind |-> "wrapped", msg |-> msg, cause |-> cause]

\* &ReviveDBRestorePointNotFoundError{...}; InvalidID "" and InvalidIndex 0
\* are the zero values of fields left unset
ReviveDBRestorePointNotFoundError(archive, invalidID, invalidIndex) ==
    [kind |-> "ReviveDBRestorePointNotFoundError", Archive |-> archive,
     InvalidID |-> invalidID, InvalidIndex |-> invalidIndex]

\* fmt.Errorf("found %d restore points instead of 1: %+v", n, points)
FoundManyError(points) ==
    [kind |-> "error", msg |-> "found %d restore points instead of 1",
     count |-> Len(points), points |-> points]

(***************************************************************************)
(* Restore policy predicates.  setDefaultValues allocates RestorePoint and *)
(* its three fields, so the pointers are never nil here.                   *)
(***************************************************************************)
isRestoreEnabled(o) == o.RestorePoint.Archive # ""

hasValidRestorePointID(o) == o.RestorePoint.ID # ""

\* mutation: the index test admits 0, the value of an index left unset
hasValidRestorePointIndex_NonNegative(o) == o.RestorePoint.Index >= 0

hasValidRestorePointIndex(o) == o.RestorePoint.Index > 0

\* the filter of the loop of findSpecifiedRestorePoint
restorePointFound(o, restorePoint) ==
    /\ restorePoint.Archive = o.RestorePoint.Archive
    /\ \/ restorePoint.ID = o.RestorePoint.ID
       \/ restorePoint.Index = o.RestorePoint.Index

findSpecifiedRestorePoint(o, allRestorePoints) ==
    LET foundRestorePoints ==
            SelectSeq(allRestorePoints, LAMBDA rp : restorePointFound(o, rp))
    IN  IF Len(foundRestorePoints) = 0
        THEN [id |-> "",
              err |-> IF hasValidRestorePointID(o)
                      THEN ReviveDBRestorePointNotFoundError(
                               o.RestorePoint.Archive, o.RestorePoint.ID, 0)
                      ELSE ReviveDBRestorePointNotFoundError(
                               o.RestorePoint.Archive, "", o.RestorePoint.Index)]
        ELSE IF Len(foundRestorePoints) = 1
        THEN [id |-> foundRestorePoints[1].ID, err |-> NilErr]
        ELSE [id |-> "", err |-> FoundManyError(foundRestorePoints)]

validateRestoreOptions(o) ==
    IF /\ isRestoreEnabled(o)
       /\ hasValidRestorePointID(o) = hasValidRestorePointIndex(o)
    THEN Errorf("for a restore, must specify exactly one of (1-based) restore point index or id, not both or none")
    ELSE NilErr

(***************************************************************************)
(* Host/node realignment.  A VCoordinationDatabase holds HostNodeMap, a    *)
(* map from host to *VCoordinationNode: the model keeps the node objects   *)
(* in nodes, by identity, and the map holds identities.                    *)
(***************************************************************************)
HostNames == <<"h1", "h2", "h3", "h4", "h5">>
NodeNames == <<"v_db_node0001", "v_db_node0002", "v_db_node0003">>

\* Go's < on the node names: they compare as their positions in NodeNames
NameLess(a, b) ==
    (CHOOSE i \in 1..Len(NodeNames) : NodeNames[i] = a)
        < (CHOOSE j \in 1..Len(NodeNames) : NodeNames[j] = b)

EmptyMap == [x \in {} |-> 0]

\* m[k] = v on a Go map
MapPut(m, k, v) == [x \in DOMAIN m \cup {k} |-> IF x = k THEN v ELSE m[x]]

makeVCoordinationDatabase ==
    [Name |-> "", CommunalStorageLocation |-> "", HostList |-> <<>>,
     HostNodeMap |-> EmptyMap, IsEon |-> FALSE]

\* mutation: the nodes are left in map-iteration order, not sorted by name
sortedVNodes_Unsorted(v, heap) ==
    LET ids == {v.HostNodeMap[h] : h \in DOMAIN v.HostNodeMap}
    IN  {s \in [1..Cardinality(ids) -> ids] : \A i, j \in DOMAIN s : i # j => s[i] # s[j]}

\* the outcomes of collecting the map's values (in Go's unspecified map
\* order) and sort.Slice by Name (not stable): every arrangement of the
\* nodes in which no node precedes one of a smaller name
sortedVNodes(v, heap) ==
    LET ids == {v.HostNodeMap[h] : h \in DOMAIN v.HostNodeMap}
    IN  {s \in [1..Cardinality(ids) -> ids] :
            /\ \A i, j \in DOMAIN s : i # j => s[i] # s[j]
            /\ \A i, j \in DOMAIN s : i < j => ~NameLess(heap[s[j]].Name, heap[s[i]].Name)}

\* the loop over newVDB.HostList, from position index on
RECURSIVE realignLoop(_, _, _, _, _, _)
realignLoop(index, hostList, vNodes, old, heap, hostNodeMap) ==
    IF index > Len(hostList)
    THEN [oldHosts |-> old, nodes |-> heap, HostNodeMap |-> hostNodeMap]
    ELSE realignLoop(index + 1, hostList, vNodes,
                     Append(old, heap[vNodes[index]].Address),
                     [heap EXCEPT ![vNodes[index]].Address = hostList[index]],
                     MapPut(hostNodeMap, hostList[index], vNodes[index]))

MismatchError ==
    Errorf("the number of new hosts does not match the number of nodes in original database")

\* mutation: only a host list longer than the node list is refused
generateReviveVDB_FewerHostsPass(o, v, heap, vNodes) ==
    LET new == [makeVCoordinationDatabase EXCEPT
                    !.Name = o.DBName,
                    !.CommunalStorageLocation = o.CommunalStorageLocation,
                    !.HostList = o.Hosts]
    IN  IF Len(new.HostList) > Len(vNodes)
        THEN [newVDB |-> new, oldHosts |-> <<>>, nodes |-> heap, err |-> MismatchError]
        ELSE LET r == realignLoop(1, new.HostList, vNodes, <<>>, heap, EmptyMap)
             IN  [newVDB |-> [new EXCEPT !.HostNodeMap = r.HostNodeMap],
                  oldHosts |-> r.oldHosts, nodes |-> r.nodes, err |-> NilErr]

\* mutation: the new hosts are not written to the shared node objects
generateReviveVDB_AddressNotWritten(o, v, heap, vNodes) ==
    LET new == [makeVCoordinationDatabase EXCEPT
                    !.Name = o.DBName,
                    !.CommunalStorageLocation = o.CommunalStorageLocation,
                    !.HostList = o.Hosts]
    IN  IF Len(new.HostList) # Len(vNodes)
        THEN [newVDB |-> new, oldHosts |-> <<>>, nodes |-> heap, err |-> MismatchError]
        ELSE LET r == realignLoop(1, new.HostList, vNodes, <<>>, heap, EmptyMap)
             IN  [newVDB |-> [new EXCEPT !.HostNodeMap = r.HostNodeMap],
                  oldHosts |-> r.oldHosts, nodes |-> heap, err |-> NilErr]

\* mutation: the counts are compared after the hosts that have a node are
\* assigned
generateReviveVDB_CheckedAfterAssignment(o, v, heap, vNodes) ==
    LET new == [makeVCoordinationDatabase EXCEPT
                    !.Name = o.DBName,
                    !.CommunalStorageLocation = o.CommunalStorageLocation,
                    !.HostList = o.Hosts]
        paired == IF Len(new.HostList) < Len(vNodes) THEN Len(new.HostList) ELSE Len(vNodes)
        r == realignLoop(1, SubSeq(new.HostList, 1, paired), vNodes, <<>>, heap, EmptyMap)
    IN  IF Len(new.HostList) # Len(vNodes)
        THEN [newVDB |-> new, oldHosts |-> <<>>, nodes |-> r.nodes, err |-> MismatchError]
        ELSE [newVDB |-> [new EXCEPT !.HostNodeMap = r.HostNodeMap],
              oldHosts |-> r.oldHosts, nodes |-> r.nodes, err |-> NilErr]

\* generateReviveVDB for one outcome vNodes of the sort: the new vdb, the
\* old hosts, the error and the node objects as the call leaves them
generateReviveVDB(o, v, heap, vNodes) ==
    LET new == [makeVCoordinationDatabase EXCEPT
                    !.Name = o.DBName,
                    !.CommunalStorageLocation = o.CommunalStorageLocation,
                    !.HostList = o.Hosts]
    IN  IF Len(new.HostList) # Len(vNodes)
        THEN [newVDB |-> new, oldHosts |-> <<>>, nodes |-> heap, err |-> MismatchError]
        ELSE LET r == realignLoop(1, new.HostList, vNodes, <<>>, heap, EmptyMap)
             IN  [newVDB |-> [new EXCEPT !.HostNodeMap = r.HostNodeMap],
                  oldHosts |-> r.oldHosts, nodes |-> r.nodes, err |-> NilErr]

(***************************************************************************)
(* Input domains.                                                          *)
(***************************************************************************)
Archives == {"nightly", "weekly"}
PolicyArchives == {"", "nightly"}
PolicyIDs == {"", "id1"}
PolicyIndexes == {-1, 0, 2}

RestorePointPolicies ==
    [Archive : PolicyArchives, Index : PolicyIndexes, ID : PolicyIDs]

\* RestorePoint values as decoded from the listing operation's response: a
\* field the response leaves out decodes to its zero value ("" or 0)
RestorePoints ==
    [Archive : {"nightly"}, Index : {0, 1, 2}, ID : {"", "id1", "id2"}]
        \cup {[Archive |-> "weekly", Index |-> 2, ID |-> "id1"]}

RECURSIVE SeqsUpTo(_, _)
SeqsUpTo(S, n) ==
    IF n = 0 THEN {<<>>}
    ELSE LET shorter == SeqsUpTo(S, n - 1)
         IN  shorter \cup {Append(s, x) : s \in {t \in shorter : Len(t) = n - 1}, x \in S}

NoFound == [id |-> "", err |-> NilErr]
NoRet == [dbInfo |-> "", vdbPtr |-> "nil", err |-> NilErr]

\* the options VReviveDBOptionsFactory returns, but for the fields given
OptionsWith(dbName, communal, rawHosts, hostList, displayOnly, policy) ==
    [DBName |-> dbName, CommunalStorageLocation |-> communal,
     RawHosts |-> rawHosts, Hosts |-> hostList, DisplayOnly |-> displayOnly,
     RestorePoint |-> policy]

NoPolicy == [Archive |-> "", Index |-> 0, ID |-> ""]

\* the topologies the download operation can leave in vdb: each node of the
\* description file is one object, entered under its own address
DiscoveredAddresses == {HostNames[i] : i \in 1..MaxNodes}
NodeNameSet == {NodeNames[i] : i \in 1..Len(NodeNames)}
AddressId(a) == CHOOSE i \in 1..Len(HostNames) : HostNames[i] = a

Topologies ==
    UNION {[S -> NodeNameSet] : S \in SUBSET DiscoveredAddresses}

\* the node objects of a topology: the node entered under address a has
\* identity AddressId(a)
TopologyNodes(t) ==
    [id \in {AddressId(a) : a \in DOMAIN t} |->
        [Name |-> t[HostNames[id]], Address |-> HostNames[id]]]

TopologyHostNodeMap(t) == [a \in DOMAIN t |-> AddressId(a)]

\* the host list of a topology: the addresses it was discovered under
TopologyHostList(t) == SelectSeq(HostNames, LAMBDA a : a \in DOMAIN t)

NewHostLists == SeqsUpTo({HostNames[i] : i \in 1..MaxHosts}, MaxHosts)

\* a pointer or a map that may be nil
Nil == [isNil |-> TRUE, val |-> EmptyMap]
NonNil(val) == [isNil |-> FALSE, val |-> val]

\* opEngineExecContext as makeClusterOpEngine leaves it
makeOpEngineExecContext ==
    [restorePoints |-> <<>>, dbInfo |-> "", startupCommandMap |-> Nil,
     hostsWithLatestCatalog |-> <<>>, nmaVDatabase |-> [HostNodesMap |-> EmptyMap]]

\* makeClusterOpEngine(instructions, &certs), the id-th engine made
makeClusterOpEngine(id, instructions) ==
    [id |-> id, instructions |-> instructions, done |-> 0,
     execContext |-> makeOpEngineExecContext]

EngineIdle == clusterOpEngine = makeClusterOpEngine(0, <<>>) /\ trace = <<>>
RealignIdle ==
    /\ nodes = EmptyMap
    /\ vdb = makeVCoordinationDatabase
    /\ newVDB = makeVCoordinationDatabase
    /\ oldHosts = <<>>

\* no operation is being run: the zero nmaStartNodeOp
NoOp ==
    [name |-> "", hosts |-> <<>>, vdb |-> Nil, hostRequestBodyMap |-> EmptyMap,
     RequestCollection |-> EmptyMap, ResultCollection |-> EmptyMap,
     processed |-> [done |-> FALSE, hosts |-> {}, err |-> NilErr]]

\* the dispatcher before any setup: no host, no request in flight
makeHTTPRequestDispatcher == [hosts |-> {}, pending |-> {}]

OpIdle ==
    /\ curOp = NoOp
    /\ dispatcher = makeHTTPRequestDispatcher
    /\ phaseLog = <<>>
    /\ runError = NilErr

(***************************************************************************)
(* Option validation and analysis.                                         *)
(***************************************************************************)
\* util.ValidateName: the names it accepts
ValidNames == {"db"}

ValidateName(name) ==
    IF name \in ValidNames THEN NilErr ELSE Errorf("invalid character in database name")

\* util.ValidateCommunalStorageLocation
ValidateCommunalStorageLocation(location) ==
    IF location = "" THEN Errorf("must specify a communal storage location") ELSE NilErr

\* validateRequiredOptions requiring hosts with display-only too
validateRequiredOptions_HostsAlwaysRequired(o) ==
    IF o.DBName = "" THEN Errorf("must specify a database name")
    ELSE IF ValidateName(o.DBName) # NilErr THEN ValidateName(o.DBName)
    ELSE IF Len(o.RawHosts) = 0
    THEN Errorf("must specify a host or host list")
    ELSE ValidateCommunalStorageLocation(o.CommunalStorageLocation)

validateRequiredOptions(o) ==
    IF o.DBName = "" THEN Errorf("must specify a database name")
    ELSE IF ValidateName(o.DBName) # NilErr THEN ValidateName(o.DBName)
    ELSE IF Len(o.RawHosts) = 0 /\ ~o.DisplayOnly
    THEN Errorf("must specify a host or host list")
    ELSE ValidateCommunalStorageLocation(o.CommunalStorageLocation)

validateParseOptions(o) ==
    IF validateRequiredOptions(o) # NilErr THEN validateRequiredOptions(o)
    ELSE validateRestoreOptions(o)

\* util.ResolveRawHostsToAddresses: an address resolves to itself,
\* "localhost" to the loopback address, and an unknown name fails, the hosts
\* resolved before it being returned with the error
ResolvableHosts == {HostNames[i] : i \in 1..Len(HostNames)} \cup {"localhost"}

ResolveToOneIP(host) == IF host = "localhost" THEN "127.0.0.1" ELSE host

ResolveRawHostsToAddresses(rawHosts) ==
    LET bad == {i \in 1..Len(rawHosts) : rawHosts[i] \notin ResolvableHosts}
    IN  IF bad = {}
        THEN [hosts |-> [i \in 1..Len(rawHosts) |-> ResolveToOneIP(rawHosts[i])],
              err |-> NilErr]
        ELSE LET first == CHOOSE i \in bad : \A j \in bad : i <= j
             IN  [hosts |-> [i \in 1..(first - 1) |-> ResolveToOneIP(rawHosts[i])],
                  err |-> Errorf("cannot resolve host")]

\* analyzeOptions: the options as it leaves them, and its error
analyzeOptions(o) ==
    LET raw == IF Len(o.RawHosts) = 0 /\ o.DisplayOnly
               THEN Append(o.RawHosts, "localhost") ELSE o.RawHosts
        r == ResolveRawHostsToAddresses(raw)
    IN  [options |-> [o EXCEPT !.RawHosts = raw, !.Hosts = r.hosts], err |-> r.err]

validateAnalyzeOptions(o) ==
    IF validateParseOptions(o) # NilErr
    THEN [options |-> o, err |-> validateParseOptions(o)]
    ELSE analyzeOptions(o)

(***************************************************************************)
(* Instruction lists.  An operation is recorded by its name, the hosts it  *)
(* was made for, the source file it downloads and the host->node map it    *)
(* was given.  A factory that returns an error may fail: failing names it. *)
(***************************************************************************)
NoPath == <<>>

Op(name, hostList, sourceFilePath, hostNodeMap) ==
    [name |-> name, hosts |-> hostList, sourceFilePath |-> sourceFilePath,
     hostNodeMap |-> hostNodeMap]

\* options.getCurrConfigFilePath()
getCurrConfigFilePath(o) ==
    <<"currConfigFile", o.CommunalStorageLocation, o.DBName>>

\* options.getRestorePointConfigFilePath(validatedRestorePointID)
getRestorePointConfigFilePath(o, validatedRestorePointID) ==
    <<"restorePointConfigFile", o.CommunalStorageLocation, o.DBName,
      o.RestorePoint.Archive, validatedRestorePointID>>

\* getInitiator(hosts)
getInitiator(hostList) == hostList[1]

FactoryErr(factory) == [kind |-> "error", msg |-> "cannot make the operation", factory |-> factory]

PreFactories ==
    {"makeHTTPSCheckRunningDBOp", "makeNMADownloadFileOpForRevive",
     "makeNMADownloadFileOpForRestoreLeaseCheck"}

producePreReviveDBInstructions(o, failing) ==
    LET nmaHealthOp == Op("NMAHealthOp", o.Hosts, NoPath, EmptyMap)
        checkDBRunningOp == Op("HTTPSCheckRunningDBOp", o.Hosts, NoPath, EmptyMap)
        currConfigFileSrcPath == getCurrConfigFilePath(o)
        first == <<nmaHealthOp, checkDBRunningOp>>
    IN  IF failing = "makeHTTPSCheckRunningDBOp"
        THEN [instructions |-> <<>>, err |-> FactoryErr(failing)]
        ELSE IF ~isRestoreEnabled(o)
        THEN IF failing = "makeNMADownloadFileOpForRevive"
             THEN [instructions |-> first, err |-> FactoryErr(failing)]
             ELSE [instructions |->
                       Append(first, Op("NMADownloadFileOpForRevive", o.Hosts,
                                        currConfigFileSrcPath, EmptyMap)),
                   err |-> NilErr]
        ELSE IF ~o.DisplayOnly /\ failing = "makeNMADownloadFileOpForRestoreLeaseCheck"
        THEN [instructions |-> first, err |-> FactoryErr(failing)]
        ELSE LET checked ==
                     IF ~o.DisplayOnly
                     THEN Append(first, Op("NMADownloadFileOpForRestoreLeaseCheck",
                                           o.Hosts, currConfigFileSrcPath, EmptyMap))
                     ELSE first
                 bootstrapHost == <<getInitiator(o.Hosts)>>
             IN  [instructions |->
                      Append(checked, Op("NMAShowRestorePointsOp", bootstrapHost,
                                         NoPath, EmptyMap)),
                  err |-> NilErr]

\* produceRestoreDBSpecificInstructions reading the current description
\* file instead of the restore point's
produceRestoreDBSpecificInstructions_CurrConfig(o, validatedRestorePointID, failing) ==
    IF failing = "makeNMADownloadFileOpForRestore"
    THEN [instructions |-> <<>>, err |-> FactoryErr(failing)]
    ELSE [instructions |->
              <<Op("NMADownloadFileOpForRestore", o.Hosts,
                   getCurrConfigFilePath(o), EmptyMap)>>,
          err |-> NilErr]

produceRestoreDBSpecificInstructions(o, validatedRestorePointID, failing) ==
    IF failing = "makeNMADownloadFileOpForRestore"
    THEN [instructions |-> <<>>, err |-> FactoryErr(failing)]
    ELSE [instructions |->
              <<Op("NMADownloadFileOpForRestore", o.Hosts,
                   getRestorePointConfigFilePath(o, validatedRestorePointID), EmptyMap)>>,
          err |-> NilErr]

\* mutation: the remote-catalog load is made for the new hosts
produceReviveDBInstructions_NewHosts(o, v, heap, vNodes, failing) ==
    LET g == generateReviveVDB(o, v, heap, vNodes)
    IN  IF g.err # NilErr \/ failing = "makeNMAPrepareDirectoriesOp"
        THEN [instructions |-> <<>>, newVDB |-> g.newVDB, oldHosts |-> g.oldHosts,
              nodes |-> g.nodes,
              err |-> IF g.err # NilErr THEN g.err ELSE FactoryErr(failing)]
        ELSE [instructions |->
                  <<Op("NMAPrepareDirectoriesOp", <<>>, NoPath, g.newVDB.HostNodeMap),
                    Op("NMANetworkProfileOp", o.Hosts, NoPath, EmptyMap),
                    Op("NMALoadRemoteCatalogOp", o.Hosts, NoPath, g.newVDB.HostNodeMap)>>,
              newVDB |-> g.newVDB, oldHosts |-> g.oldHosts, nodes |-> g.nodes,
              err |-> NilErr]

\* produceReviveDBInstructions for one outcome vNodes of the sort.  The loop
\* that takes the user storage locations out of each node's storage
\* locations changes no field the model keeps.
produceReviveDBInstructions(o, v, heap, vNodes, failing) ==
    LET g == generateReviveVDB(o, v, heap, vNodes)
    IN  IF g.err # NilErr \/ failing = "makeNMAPrepareDirectoriesOp"
        THEN [instructions |-> <<>>, newVDB |-> g.newVDB, oldHosts |-> g.oldHosts,
              nodes |-> g.nodes,
              err |-> IF g.err # NilErr THEN g.err ELSE FactoryErr(failing)]
        ELSE [instructions |->
                  <<Op("NMAPrepareDirectoriesOp", <<>>, NoPath, g.newVDB.HostNodeMap),
                    Op("NMANetworkProfileOp", o.Hosts, NoPath, EmptyMap),
                    Op("NMALoadRemoteCatalogOp", g.oldHosts, NoPath, g.newVDB.HostNodeMap)>>,
              newVDB |-> g.newVDB, oldHosts |-> g.oldHosts, nodes |-> g.nodes,
              err |-> NilErr]

(***************************************************************************)
(* SpecResolve: a validated policy resolved against a discovered list.     *)
(***************************************************************************)
InitResolve ==
    /\ pc = "validate"
    /\ \E policy \in RestorePointPolicies :
          options = OptionsWith("db", "s3://bucket/db", <<"h1">>, <<"h1">>, FALSE, policy)
    /\ \E all \in SeqsUpTo(RestorePoints, MaxRestorePoints) :
          clusterOpEngine = [makeClusterOpEngine(1, <<>>) EXCEPT
                                !.execContext.restorePoints = all]
    /\ trace = <<>>
    /\ found = NoFound
    /\ ret = NoRet
    /\ RealignIdle
    /\ OpIdle

\* validateRestoreOptions, as validateParseOptions calls it
ResolveValidate ==
    /\ pc = "validate"
    /\ LET err == validateRestoreOptions(options)
       IN  IF err # NilErr
           THEN /\ pc' = "rejected"
                /\ ret' = [ret EXCEPT !.err = err]
           ELSE /\ pc' = IF isRestoreEnabled(options) THEN "find" ELSE "accepted"
                /\ ret' = ret
    /\ UNCHANGED <<options, found, engineVars, realignVars, opVars>>

\* findSpecifiedRestorePoint, as VReviveDatabase calls it when restore is enabled
ResolveFind ==
    /\ pc = "find"
    /\ found' = findSpecifiedRestorePoint(options, clusterOpEngine.execContext.restorePoints)
    /\ pc' = "resolved"
    /\ UNCHANGED <<options, ret, engineVars, realignVars, opVars>>

NextResolve == ResolveValidate \/ ResolveFind

SpecResolve == InitResolve /\ [][NextResolve]_vars

(***************************************************************************)
(* Claims about restore-point resolution and restore-policy validation.    *)
(***************************************************************************)
\* the selector the user supplied, read off the policy as the claims word it
SuppliedID(o) == o.RestorePoint.ID # ""
SuppliedIndex(o) == o.RestorePoint.Index > 0
ExactlyOneSupplied(o) == SuppliedID(o) # SuppliedIndex(o)

\* the discovered restore points resolution is given
restorePoints == clusterOpEngine.execContext.restorePoints

\* positions of the entries that match the archive and the supplied selector
MatchingEntries(o, all) ==
    {i \in 1..Len(all) :
        /\ all[i].Archive = o.RestorePoint.Archive
        /\ IF SuppliedID(o) THEN all[i].ID = o.RestorePoint.ID
                            ELSE all[i].Index = o.RestorePoint.Index}

\* C1: with a non-empty archive and exactly one selector supplied, a list
\* holding exactly one entry that matches the archive and the supplied
\* selector resolves to that entry's identifier with no error.
C1_UniqueMatchResolves ==
    (/\ pc = "resolved"
     /\ options.RestorePoint.Archive # ""
     /\ ExactlyOneSupplied(options)
     /\ Cardinality(MatchingEntries(options, restorePoints)) = 1)
    => \E i \in MatchingEntries(options, restorePoints) :
          found = [id |-> restorePoints[i].ID, err |-> NilErr]

\* C2: a list with no entry matching the archive and the supplied selector
\* fails with a ReviveDBRestorePointNotFoundError carrying the archive and
\* the supplied selector, the other selector field left unset.
C2_NoMatchNotFound ==
    (/\ pc = "resolved"
     /\ ExactlyOneSupplied(options)
     /\ MatchingEntries(options, restorePoints) = {})
    => /\ found.id = ""
       /\ found.err.kind = "ReviveDBRestorePointNotFoundError"
       /\ found.err.Archive = options.RestorePoint.Archive
       /\ IF SuppliedID(options)
          THEN /\ found.err.InvalidID = options.RestorePoint.ID
               /\ found.err.InvalidIndex = 0
          ELSE /\ found.err.InvalidIndex = options.RestorePoint.Index
               /\ found.err.InvalidID = ""

\* C3: a list with two or more entries matching the archive and the supplied
\* selector fails with the generic ambiguity error, whose count is the
\* number of matching entries, and returns no identifier.
C3_ManyMatchesAmbiguous ==
    (/\ pc = "resolved"
     /\ ExactlyOneSupplied(options)
     /\ Cardinality(MatchingEntries(options, restorePoints)) >= 2)
    => /\ found.id = ""
       /\ found.err.kind = "error"
       /\ found.err.count = Cardinality(MatchingEntries(options, restorePoints))

\* C6: restore mode is enabled iff the archive is non-empty; validation
\* rejects iff restore is enabled and not exactly one of {non-empty
\* identifier, index > 0} is set; with restore disabled it never rejects.
C6_ValidateRestoreOptions ==
    pc # "validate"
    => LET enabled == options.RestorePoint.Archive # ""
           idSet == options.RestorePoint.ID # ""
           indexSet == options.RestorePoint.Index > 0
       IN  /\ isRestoreEnabled(options) <=> enabled
           /\ (pc = "rejected") <=> (enabled /\ (idSet <=> indexSet))
           /\ (pc = "rejected") <=> (ret.err # NilErr)
           /\ ~enabled => pc = "accepted"

\* a policy with both selectors set has been rejected
C6_Witness ==
    /\ pc = "rejected"
    /\ options.RestorePoint.ID # ""
    /\ options.RestorePoint.Index > 0

(***************************************************************************)
(* SpecRealign: generateReviveVDB applied to a discovered topology and a   *)
(* new host list.                                                          *)
(***************************************************************************)
InitRealign ==
    /\ pc = "generate"
    /\ \E hostList \in NewHostLists :
          options = OptionsWith("db", "s3://bucket/db", hostList, hostList, FALSE, NoPolicy)
    /\ \E t \in Topologies :
          /\ nodes = TopologyNodes(t)
          /\ vdb = [makeVCoordinationDatabase EXCEPT
                        !.HostList = TopologyHostList(t),
                        !.HostNodeMap = TopologyHostNodeMap(t)]
    /\ newVDB = makeVCoordinationDatabase
    /\ oldHosts = <<>>
    /\ ret = NoRet
    /\ found = NoFound
    /\ EngineIdle
    /\ OpIdle

\* newVDB, oldHosts, err := options.generateReviveVDB(vdb)
GenerateReviveVDB ==
    /\ pc = "generate"
    /\ \E vNodes \in sortedVNodes(vdb, nodes) :
          LET r == generateReviveVDB(options, vdb, nodes, vNodes)
          IN  /\ newVDB' = r.newVDB
              /\ oldHosts' = r.oldHosts
              /\ nodes' = r.nodes
              /\ ret' = [ret EXCEPT !.err = r.err]
    /\ pc' = "generated"
    /\ UNCHANGED <<options, vdb, found, engineVars, opVars>>

NextRealign == GenerateReviveVDB

SpecRealign == InitRealign /\ [][NextRealign]_vars

(***************************************************************************)
(* Claims about realignment.                                               *)
(***************************************************************************)
\* the identities of the discovered nodes
DiscoveredNodes == {vdb.HostNodeMap[h] : h \in DOMAIN vdb.HostNodeMap}

\* name is the i-th smallest of the discovered nodes' names, counted with
\* multiplicity
IsIthSmallestName(name, i) ==
    /\ Cardinality({n \in DiscoveredNodes : NameLess(nodes[n].Name, name)}) < i
    /\ i <= Cardinality({n \in DiscoveredNodes : ~NameLess(name, nodes[n].Name)})

\* the address of node n before realignment: the host it was discovered under
AddressBefore(n) == CHOOSE h \in DOMAIN vdb.HostNodeMap : vdb.HostNodeMap[h] = n

\* C4: with N discovered nodes and N new hosts, the new topology has exactly
\* N entries, the i-th new host maps to the node with the i-th smallest
\* name, whose address is now that host, and the i-th old host is that
\* node's address before realignment.
C4_RealignPairsSortedNodes ==
    (/\ pc = "generated"
     /\ Len(options.Hosts) = Cardinality(DiscoveredNodes))
    => /\ ret.err = NilErr
       /\ Cardinality(DOMAIN newVDB.HostNodeMap) = Len(options.Hosts)
       /\ Len(oldHosts) = Len(options.Hosts)
       /\ \A i \in 1..Len(options.Hosts) :
             /\ options.Hosts[i] \in DOMAIN newVDB.HostNodeMap
             /\ LET n == newVDB.HostNodeMap[options.Hosts[i]]
                IN  /\ IsIthSmallestName(nodes[n].Name, i)
                    /\ nodes[n].Address = options.Hosts[i]
                    /\ oldHosts[i] = AddressBefore(n)

(***************************************************************************)
(* Spec: the VReviveDatabase workflow.  The engine's run is modelled one   *)
(* operation at a time; what an operation discovers and whether it fails   *)
(* is the remote side's choice.                                            *)
(***************************************************************************)
DBNames == {"", "db", "d b"}
CommunalStorageLocations == {"", "s3://bucket/db"}

\* host lists as the user gives them: addresses, possibly repeated, or one
\* name that does not resolve
WorkflowRawHostLists ==
    SeqsUpTo({HostNames[1], HostNames[2], HostNames[3]}, MaxHosts)
        \cup {<<"no.such.host">>}

WorkflowPolicies ==
    {NoPolicy,
     [Archive |-> "nightly", Index |-> 0, ID |-> "id1"],
     [Archive |-> "nightly", Index |-> 2, ID |-> ""],
     [Archive |-> "nightly", Index |-> 2, ID |-> "id1"],
     [Archive |-> "nightly", Index |-> 0, ID |-> ""]}

\* what the restore-point listing can discover
WorkflowRestorePointLists ==
    SeqsUpTo({[Archive |-> "nightly", Index |-> 1, ID |-> "id1"],
              [Archive |-> "nightly", Index |-> 2, ID |-> "id2"]}, 2)

\* what a description file can hold: k nodes at the first k addresses, the
\* node names running against the addresses' order
WorkflowTopologies ==
    {[a \in {HostNames[i] : i \in 1..k} |-> NodeNames[k + 1 - AddressId(a)]] :
        k \in 0..(IF MaxNodes < Len(NodeNames) THEN MaxNodes ELSE Len(NodeNames))}

\* the description an operation reads from communal storage
DiscoveredDBInfo == "description of db"

Init ==
    /\ pc = "validate"
    /\ \E dbName \in DBNames, communal \in CommunalStorageLocations,
          rawHosts \in WorkflowRawHostLists, displayOnly \in BOOLEAN,
          policy \in WorkflowPolicies :
          options = OptionsWith(dbName, communal, rawHosts, <<>>, displayOnly, policy)
    /\ ret = NoRet
    /\ found = NoFound
    /\ EngineIdle
    /\ RealignIdle
    /\ OpIdle

\* return dbInfo, vdbPtr, err
Return(dbInfo, vdbPtr, err) ==
    /\ ret' = [dbInfo |-> dbInfo, vdbPtr |-> vdbPtr, err |-> err]
    /\ pc' = "done"

\* VReviveDatabase going on to build the first list whatever
\* validateAnalyzeOptions returned
ValidateAnalyzeOptions_ErrorIgnored ==
    /\ pc = "validate"
    /\ options' = validateAnalyzeOptions(options).options
    /\ pc' = "producePre"
    /\ UNCHANGED <<ret, found, engineVars, realignVars, opVars>>

\* err = options.validateAnalyzeOptions(); vdb := makeVCoordinationDatabase()
ValidateAnalyzeOptions ==
    /\ pc = "validate"
    /\ LET r == validateAnalyzeOptions(options)
       IN  /\ options' = r.options
           /\ IF r.err # NilErr
              THEN Return(ret.dbInfo, "nil", r.err)
              ELSE pc' = "producePre" /\ ret' = ret
    /\ UNCHANGED <<found, engineVars, realignVars, opVars>>

\* producePreReviveDBInstructions and makeClusterOpEngine
ProducePreReviveDBInstructions ==
    /\ pc = "producePre"
    /\ \E failing \in PreFactories \cup {"none"} :
          LET r == producePreReviveDBInstructions(options, failing)
          IN  IF r.err # NilErr
              THEN /\ Return(ret.dbInfo, "nil",
                             Wrap("fail to produce pre-revive database instructions", r.err))
                   /\ UNCHANGED clusterOpEngine
              ELSE /\ clusterOpEngine' = makeClusterOpEngine(clusterOpEngine.id + 1, r.instructions)
                   /\ pc' = "runPre"
                   /\ ret' = ret
    /\ UNCHANGED <<options, found, trace, realignVars, opVars>>

Running == pc \in {"runPre", "runRestore", "runRevive"}

NextOp == clusterOpEngine.instructions[clusterOpEngine.done + 1]

RunComplete == clusterOpEngine.done = Len(clusterOpEngine.instructions)

Executed(op, ok) == [engine |-> clusterOpEngine.id, op |-> op, ok |-> ok]

\* clusterOpEngine.run: the next operation of the list runs and succeeds.
\* A download for revive or for restore fills vdb from the description file
\* it reads and leaves the description in the context; the listing leaves
\* the restore points in the context.
RunOpSucceeds ==
    /\ Running
    /\ ~RunComplete
    /\ trace' = Append(trace, Executed(NextOp, TRUE))
    /\ \E t \in WorkflowTopologies, all \in WorkflowRestorePointLists :
          LET name == NextOp.name
              fills == name \in {"NMADownloadFileOpForRevive", "NMADownloadFileOpForRestore"}
              reads == fills \/ name = "NMADownloadFileOpForRestoreLeaseCheck"
              ctx == clusterOpEngine.execContext
          IN  /\ clusterOpEngine' =
                    [clusterOpEngine EXCEPT
                        !.done = @ + 1,
                        !.execContext =
                            [ctx EXCEPT
                                !.restorePoints = IF name = "NMAShowRestorePointsOp"
                                                  THEN all ELSE @,
                                !.dbInfo = IF reads THEN DiscoveredDBInfo ELSE @]]
              /\ IF fills
                 THEN /\ nodes' = TopologyNodes(t)
                      /\ vdb' = [vdb EXCEPT !.HostList = TopologyHostList(t),
                                           !.HostNodeMap = TopologyHostNodeMap(t)]
                 ELSE UNCHANGED <<nodes, vdb>>
    /\ UNCHANGED <<pc, options, ret, found, newVDB, oldHosts, opVars>>

\* VReviveDatabase dropping the error of a run and going on
RunOpFails_ErrorDropped ==
    /\ Running
    /\ ~RunComplete
    /\ trace' = Append(trace, Executed(NextOp, FALSE))
    /\ clusterOpEngine' = [clusterOpEngine EXCEPT !.done = Len(clusterOpEngine.instructions)]
    /\ UNCHANGED <<pc, options, ret, found, realignVars, opVars>>

\* clusterOpEngine.run: the next operation fails, the run stops and returns
\* its error, and VReviveDatabase returns it wrapped
RunOpFails ==
    /\ Running
    /\ ~RunComplete
    /\ trace' = Append(trace, Executed(NextOp, FALSE))
    /\ LET runErr == [kind |-> "error", msg |-> "operation failed", op |-> NextOp.name]
       IN  CASE pc = "runPre" ->
                  Return(ret.dbInfo, "nil",
                         Wrap("fail to collect the information of database in revive_db", runErr))
             [] pc = "runRestore" ->
                  Return(ret.dbInfo, "&vdb",
                         Wrap("fail to collect the restore-specific information of database in revive_db", runErr))
             [] pc = "runRevive" ->
                  Return(ret.dbInfo, "&vdb", Wrap("fail to revive database", runErr))
    /\ UNCHANGED <<options, found, clusterOpEngine, realignVars, opVars>>

\* options.findSpecifiedRestorePoint(clusterOpEngine.execContext.restorePoints)
FindSpecifiedRestorePoint ==
    /\ pc = "runPre"
    /\ RunComplete
    /\ isRestoreEnabled(options)
    /\ LET r == findSpecifiedRestorePoint(options, clusterOpEngine.execContext.restorePoints)
       IN  /\ found' = r
           /\ IF r.err # NilErr
              THEN Return(ret.dbInfo, "&vdb",
                          Wrap("fail to find a restore point as specified", r.err))
              ELSE pc' = "produceRestore" /\ ret' = ret
    /\ UNCHANGED <<options, engineVars, realignVars, opVars>>

\* the restore-specific list given to the engine of the first run, its
\* context kept
ProduceRestoreDBSpecificInstructions_SameEngine ==
    /\ pc = "produceRestore"
    /\ LET r == produceRestoreDBSpecificInstructions(options, found.id, "none")
       IN  /\ clusterOpEngine' =
                 [clusterOpEngine EXCEPT !.id = @ + 1, !.done = 0,
                                         !.instructions = r.instructions]
           /\ pc' = "runRestore"
           /\ ret' = ret
    /\ UNCHANGED <<options, found, trace, realignVars, opVars>>

\* produceRestoreDBSpecificInstructions and makeClusterOpEngine
ProduceRestoreDBSpecificInstructions ==
    /\ pc = "produceRestore"
    /\ \E failing \in {"makeNMADownloadFileOpForRestore", "none"} :
          LET r == produceRestoreDBSpecificInstructions(options, found.id, failing)
          IN  IF r.err # NilErr
              THEN /\ Return(ret.dbInfo, "&vdb",
                             Wrap("fail to produce restore-specific instructions", r.err))
                   /\ UNCHANGED clusterOpEngine
              ELSE /\ clusterOpEngine' = makeClusterOpEngine(clusterOpEngine.id + 1, r.instructions)
                   /\ pc' = "runRestore"
                   /\ ret' = ret
    /\ UNCHANGED <<options, found, trace, realignVars, opVars>>

\* the information-gathering runs have returned without error
InfoGathered ==
    /\ RunComplete
    /\ \/ pc = "runPre" /\ ~isRestoreEnabled(options)
       \/ pc = "runRestore"

\* if *options.DisplayOnly { dbInfo = clusterOpEngine.execContext.dbInfo; return }
DisplayOnlyReturn ==
    /\ InfoGathered
    /\ options.DisplayOnly
    /\ Return(clusterOpEngine.execContext.dbInfo, "&vdb", NilErr)
    /\ UNCHANGED <<options, found, engineVars, realignVars, opVars>>

\* VReviveDatabase falling through to the mutating list with display-only set
ProduceReviveDBInstructions_DisplayOnlyToo ==
    /\ InfoGathered
    /\ \E vNodes \in sortedVNodes(vdb, nodes) :
          LET r == produceReviveDBInstructions(options, vdb, nodes, vNodes, "none")
          IN  /\ nodes' = r.nodes
              /\ newVDB' = r.newVDB
              /\ oldHosts' = r.oldHosts
              /\ IF r.err # NilErr
                 THEN /\ Return(ret.dbInfo, "&vdb",
                                Wrap("fail to produce revive database instructions", r.err))
                      /\ UNCHANGED clusterOpEngine
                 ELSE /\ clusterOpEngine' = makeClusterOpEngine(clusterOpEngine.id + 1, r.instructions)
                      /\ pc' = "runRevive"
                      /\ ret' = ret
    /\ UNCHANGED <<options, found, trace, vdb, opVars>>

\* produceReviveDBInstructions and makeClusterOpEngine
ProduceReviveDBInstructions ==
    /\ InfoGathered
    /\ ~options.DisplayOnly
    /\ \E vNodes \in sortedVNodes(vdb, nodes),
          failing \in {"makeNMAPrepareDirectoriesOp", "none"} :
          LET r == produceReviveDBInstructions(options, vdb, nodes, vNodes, failing)
          IN  /\ nodes' = r.nodes
              /\ newVDB' = r.newVDB
              /\ oldHosts' = r.oldHosts
              /\ IF r.err # NilErr
                 THEN /\ Return(ret.dbInfo, "&vdb",
                                Wrap("fail to produce revive database instructions", r.err))
                      /\ UNCHANGED clusterOpEngine
                 ELSE /\ clusterOpEngine' = makeClusterOpEngine(clusterOpEngine.id + 1, r.instructions)
                      /\ pc' = "runRevive"
                      /\ ret' = ret
    /\ UNCHANGED <<options, found, trace, vdb, opVars>>

\* the revive run has returned without error: vdb is filled from the
\* options and returned
ReviveReturn ==
    /\ pc = "runRevive"
    /\ RunComplete
    /\ vdb' = [vdb EXCEPT !.Name = options.DBName, !.IsEon = TRUE,
                          !.CommunalStorageLocation = options.CommunalStorageLocation]
    /\ Return(ret.dbInfo, "&vdb", NilErr)
    /\ UNCHANGED <<options, found, engineVars, nodes, newVDB, oldHosts, opVars>>

Next ==
    \/ ValidateAnalyzeOptions
    \/ ProducePreReviveDBInstructions
    \/ RunOpSucceeds
    \/ RunOpFails
    \/ FindSpecifiedRestorePoint
    \/ ProduceRestoreDBSpecificInstructions
    \/ DisplayOnlyReturn
    \/ ProduceReviveDBInstructions
    \/ ReviveReturn

Spec == Init /\ [][Next]_vars

(***************************************************************************)
(* Claims about the revive workflow.                                       *)
(***************************************************************************)
\* the names of the operations run so far, in order
TraceNames == [i \in 1..Len(trace) |-> trace[i].op.name]

IsPrefix(s, t) == Len(s) <= Len(t) /\ \A i \in 1..Len(s) : s[i] = t[i]

MutatingOps == {"NMAPrepareDirectoriesOp", "NMANetworkProfileOp", "NMALoadRemoteCatalogOp"}

\* VReviveDatabase has returned the size-mismatch error of realignment
MismatchReturned ==
    /\ pc = "done"
    /\ ret.err = Wrap("fail to produce revive database instructions", MismatchError)

\* realignment has been applied and has succeeded
RealignSucceeded ==
    \/ pc = "runRevive"
    \/ pc = "done" /\ trace # <<>> /\ trace[Len(trace)].op.name \in MutatingOps

SizesMatch == Len(options.Hosts) = Cardinality(DOMAIN vdb.HostNodeMap)

\* C5 as claimed: realignment fails whenever the new host count differs from
\* the discovered node count, and no request has been dispatched by any
\* engine run when the mismatch error is returned.
C5_MismatchBeforeAnyNetworkCall ==
    /\ RealignSucceeded => SizesMatch
    /\ MismatchReturned => trace = <<>>

\* C5 amended: realignment fails whenever the counts differ; the mismatch
\* error is returned after the information-gathering runs have run to
\* completion and before the mutating list is built: no revive engine is
\* made and no mutating operation is run.
C5_MismatchBeforeMutatingRun ==
    /\ RealignSucceeded => SizesMatch
    /\ MismatchReturned =>
          /\ ~SizesMatch
          /\ trace # <<>>
          /\ \A i \in 1..Len(trace) : trace[i].ok /\ trace[i].op.name \notin MutatingOps
          /\ clusterOpEngine.id = (IF isRestoreEnabled(options) THEN 2 ELSE 1)
          /\ RunComplete
          /\ newVDB.HostNodeMap = EmptyMap

\* the mismatch error has been returned for two hosts and three nodes
C5_Witness ==
    /\ MismatchReturned
    /\ Len(options.Hosts) = 2
    /\ Cardinality(DOMAIN vdb.HostNodeMap) = 3

ReviveSequence ==
    <<"NMAHealthOp", "HTTPSCheckRunningDBOp", "NMADownloadFileOpForRevive",
      "NMAPrepareDirectoriesOp", "NMANetworkProfileOp", "NMALoadRemoteCatalogOp">>

\* C7: with restore and display-only disabled the operations run are, in
\* order, health check, running-database check and download for revive in
\* the first engine run, then directory-prepare, network-profile and
\* remote-catalog-load in the second, and no other; a successful invocation
\* runs all six; the download reads the current description file and the
\* remote-catalog load is given the old hosts realignment produced.
C7_ReviveOrdering ==
    (~isRestoreEnabled(options) /\ ~options.DisplayOnly)
    => /\ IsPrefix(TraceNames, ReviveSequence)
       /\ \A i \in 1..Len(trace) : trace[i].engine = (IF i <= 3 THEN 1 ELSE 2)
       /\ \A i \in 1..Len(trace) : i < Len(trace) => trace[i].ok
       /\ (pc = "done" /\ ret.err = NilErr) =>
              /\ TraceNames = ReviveSequence
              /\ trace[Len(trace)].ok
       /\ \A i \in 1..Len(trace) :
             /\ trace[i].op.name = "NMADownloadFileOpForRevive"
                    => trace[i].op.sourceFilePath = getCurrConfigFilePath(options)
             /\ trace[i].op.name = "NMALoadRemoteCatalogOp"
                    => trace[i].op.hosts = oldHosts

\* a revive onto three hosts has returned without error, the old hosts in
\* another order than the new
C7_Witness ==
    /\ pc = "done"
    /\ ret.err = NilErr
    /\ ~isRestoreEnabled(options)
    /\ ~options.DisplayOnly
    /\ Len(options.Hosts) = 3
    /\ Len(trace) = 6
    /\ oldHosts # options.Hosts

(***************************************************************************)
(* The start-node operation (nmaStartNodeOp).                              *)
(***************************************************************************)
TargetNames == <<"A", "B", "C", "D", "E">>

\* the hosts an operation targets, as a list and as a set
Targets == [i \in 1..NumTargets |-> TargetNames[i]]
TargetSet == {Targets[i] : i \in 1..NumTargets}

\* the node of the i-th target and the command that starts it
TargetNodeNames == <<"node_a", "node_b", "node_c", "node_d", "node_e">>
TargetNode(i) == [Name |-> TargetNodeNames[i], Address |-> TargetNames[i]]
StartCommand(name) == NonNil(<<"/opt/vertica/bin/vertica", "-n", name>>)

\* makeNMAStartNodeOp(logger, hosts)
makeNMAStartNodeOp(hosts) == [NoOp EXCEPT !.name = "NMAStartNodeOp", !.hosts = hosts]

\* makeNMAStartNodeOpWithVDB(logger, hosts, vdb)
makeNMAStartNodeOpWithVDB(hosts, v) == [makeNMAStartNodeOp(hosts) EXCEPT !.vdb = NonNil(v)]

\* json.Marshal(NodeStartCommand{StartCommand: hostStartCommand}): a nil
\* command marshals to null, and a list of strings always marshals
Marshal(hostStartCommand) == [data |-> "json", start_command |-> hostStartCommand]

\* updateHostRequestBodyMapFromNodeStartCommand
updateHostRequestBodyMapFromNodeStartCommand(hostRequestBodyMap, host, hostStartCommand) ==
    MapPut(hostRequestBodyMap, host, Marshal(hostStartCommand))

\* m[k] on a Go map of start commands: the nil command when k is missing
CommandAt(m, k) == IF k \in DOMAIN m THEN m[k] ELSE Nil

RECURSIVE bodiesOfHosts(_, _, _)
\* for _, host := range op.hosts { ... hostStartCommandMap[host] ... }
bodiesOfHosts(hosts, hostStartCommandMap, hostRequestBodyMap) ==
    IF hosts = <<>> THEN hostRequestBodyMap
    ELSE bodiesOfHosts(Tail(hosts), hostStartCommandMap,
            updateHostRequestBodyMapFromNodeStartCommand(
                hostRequestBodyMap, Head(hosts),
                CommandAt(hostStartCommandMap, Head(hosts))))

RECURSIVE bodiesOfNodes(_, _)
\* for _, node := range nodesList { ... node.Address, node.StartCommand ... }
bodiesOfNodes(nodesList, hostRequestBodyMap) ==
    IF nodesList = <<>> THEN hostRequestBodyMap
    ELSE bodiesOfNodes(Tail(nodesList),
            updateHostRequestBodyMapFromNodeStartCommand(
                hostRequestBodyMap, Head(nodesList).Address,
                Head(nodesList).StartCommand))

\* the outcome of updateRequestBody: the body map it leaves and its error,
\* or the panic of a nil vdb dereferenced
BodyOutcome(outcome, hostRequestBodyMap, err) ==
    [outcome |-> outcome, hostRequestBodyMap |-> hostRequestBodyMap, err |-> err]

\* updateRequestBody
updateRequestBody(o, execContext) ==
    IF ~execContext.startupCommandMap.isNil
    THEN IF o.vdb.isNil
         THEN BodyOutcome("panic", EmptyMap, NilErr)
         ELSE LET startupCommandMap == execContext.startupCommandMap.val
                  HostNodeMap == o.vdb.val.HostNodeMap
                  hostStartCommandMap ==
                      [host \in {h \in DOMAIN HostNodeMap :
                                    HostNodeMap[h].Name \in DOMAIN startupCommandMap}
                          |-> startupCommandMap[HostNodeMap[host].Name]]
              IN  BodyOutcome("ok",
                      bodiesOfHosts(o.hosts, hostStartCommandMap, EmptyMap), NilErr)
    ELSE LET hostsWithLatestCatalog == execContext.hostsWithLatestCatalog
             HostNodesMap == execContext.nmaVDatabase.HostNodesMap
         IN  IF Len(hostsWithLatestCatalog) = 0
             THEN BodyOutcome("err", EmptyMap,
                      Errorf("could not find at least one host with the latest catalog"))
             ELSE IF hostsWithLatestCatalog[1] \notin DOMAIN HostNodesMap
             THEN BodyOutcome("err", EmptyMap,
                      Errorf("the bootstrap node is not found from the catalog editor information"))
             ELSE BodyOutcome("ok",
                      bodiesOfNodes(HostNodesMap[hostsWithLatestCatalog[1]], EmptyMap),
                      NilErr)

\* hostHTTPRequest of setupClusterHTTPRequest: a missing body is the empty string
EmptyBody == [data |-> "", start_command |-> Nil]
hostHTTPRequest(hostRequestBodyMap, host) ==
    [Method |-> "POST", endpoint |-> "nodes/start",
     RequestData |-> IF host \in DOMAIN hostRequestBodyMap
                     THEN hostRequestBodyMap[host] ELSE EmptyBody]

\* setupClusterHTTPRequest(hosts): the RequestCollection it leaves
setupClusterHTTPRequest(hostRequestBodyMap, hosts) ==
    [host \in {hosts[i] : i \in 1..Len(hosts)} |->
        hostHTTPRequest(hostRequestBodyMap, host)]

\* execContext.dispatcher.setup(hosts)
setup(hosts) == [hosts |-> {hosts[i] : i \in 1..Len(hosts)}, pending |-> {}]

\* prepare setting the dispatcher and the requests up before it looks at
\* the error of updateRequestBody
prepare_SetupBeforeCheck(o, execContext) ==
    LET r == updateRequestBody(o, execContext)
    IN  [outcome |-> r.outcome, err |-> r.err,
         hosts |-> {o.hosts[i] : i \in 1..Len(o.hosts)},
         setup |-> r.outcome # "panic",
         op |-> [o EXCEPT
                   !.hostRequestBodyMap = r.hostRequestBodyMap,
                   !.RequestCollection =
                       setupClusterHTTPRequest(r.hostRequestBodyMap, o.hosts)]]

\* prepare: the outcome of updateRequestBody, whether dispatcher.setup was
\* called and for which hosts, and the operation with its requests set up
prepare(o, execContext) ==
    LET r == updateRequestBody(o, execContext)
    IN  [outcome |-> r.outcome, err |-> r.err,
         hosts |-> {o.hosts[i] : i \in 1..Len(o.hosts)},
         setup |-> r.outcome = "ok",
         op |-> [o EXCEPT
                   !.hostRequestBodyMap = r.hostRequestBodyMap,
                   !.RequestCollection =
                       IF r.outcome = "ok"
                       THEN setupClusterHTTPRequest(r.hostRequestBodyMap, o.hosts)
                       ELSE EmptyMap]]

\* what one host answers, or fails to
ResultKinds == {"ok", "undecodable", "return_code", "unreachable", "timeout"}

\* hostHTTPResult: the dispatcher's outcome for one host
hostHTTPResult(host, kind) ==
    LET failed == kind \in {"unreachable", "timeout"}
    IN  [host |-> host,
         content |-> [decodable |-> kind \in {"ok", "return_code"},
                      return_code |-> IF kind = "return_code" THEN 1 ELSE 0],
         err |-> IF failed THEN [kind |-> "error", msg |-> kind, host |-> host]
                 ELSE NilErr]

\* result.isPassing()
isPassing(result) == result.err = NilErr

\* op.parseAndCheckResponse(host, result.content, &responseObj)
parseAndCheckResponse(host, content) ==
    IF content.decodable THEN NilErr
    ELSE [kind |-> "error", msg |-> "fail to parse the response", host |-> host]

\* one pass of the loop of processResult: the error joined for the host,
\* nil when none is
hostErr(host, result) ==
    IF isPassing(result)
    THEN IF parseAndCheckResponse(host, result.content) # NilErr
         THEN parseAndCheckResponse(host, result.content)
         ELSE IF result.content.return_code # 0
         THEN [kind |-> "error", msg |-> "return_code should be 0",
               got |-> result.content.return_code]
         ELSE NilErr
    ELSE result.err

\* errors.Join over the errors a loop produced: nil when every one is nil,
\* else the non-nil errors joined, as a bag
Join(errOf, hosts) ==
    LET errs == {errOf[h] : h \in hosts} \ {NilErr}
    IN  IF errs = {} THEN NilErr
        ELSE [kind |-> "joined",
              errs |-> [e \in errs |-> Cardinality({h \in hosts : errOf[h] = e})]]

\* processResult stopping at the first failing host it meets
processResult_FirstFailureOnly(ResultCollection) ==
    LET failing == {h \in DOMAIN ResultCollection :
                       hostErr(h, ResultCollection[h]) # NilErr}
    IN  IF failing = {} THEN NilErr
        ELSE LET h == CHOOSE x \in failing : TRUE
             IN  Join([x \in {h} |-> hostErr(h, ResultCollection[h])], {h})

\* processResult: allErrs after the loop over the result collection
processResult(ResultCollection) ==
    Join([h \in DOMAIN ResultCollection |-> hostErr(h, ResultCollection[h])],
         DOMAIN ResultCollection)

(***************************************************************************)
(* SpecEngine: clusterOpEngine.run over a list of health and start-node    *)
(* operations, every operation targeting the same hosts.                   *)
(***************************************************************************)
\* the database the start-node operation is given: the i-th target hosts
\* the i-th node
EngineVDB ==
    [HostNodeMap |-> [h \in TargetSet |->
        TargetNode(CHOOSE i \in 1..NumTargets : Targets[i] = h)]]

\* makeNMAHealthOp(hosts)
makeNMAHealthOp(hosts) == [NoOp EXCEPT !.name = "NMAHealthOp", !.hosts = hosts]

\* prepare of the health operation: one GET per host, nothing read from the
\* context
healthPrepare(o) ==
    [outcome |-> "ok", err |-> NilErr,
     hosts |-> {o.hosts[i] : i \in 1..Len(o.hosts)},
     setup |-> TRUE,
     op |-> [o EXCEPT !.RequestCollection =
                [h \in {o.hosts[i] : i \in 1..Len(o.hosts)} |->
                    [Method |-> "GET", endpoint |-> "health", RequestData |-> EmptyBody]]]]

EngineOps ==
    {makeNMAHealthOp(Targets), makeNMAStartNodeOp(Targets),
     makeNMAStartNodeOpWithVDB(Targets, EngineVDB)}

EngineInstructionLists == {l \in SeqsUpTo(EngineOps, MaxOps) : Len(l) >= 1}

\* the node list the catalog editor read from a host: every target's node
\* with its start command
CatalogNodes ==
    [i \in 1..NumTargets |->
        [Address |-> Targets[i], StartCommand |-> StartCommand(TargetNode(i).Name)]]

\* the context as the operations before the list left it: the database up
\* and its startup commands fetched; the database down and the catalog read
\* from the first target; no host with the latest catalog; a bootstrap host
\* the catalog editor did not report
EngineExecContexts ==
    {[makeOpEngineExecContext EXCEPT
        !.startupCommandMap =
            NonNil([n \in {TargetNode(i).Name : i \in 1..NumTargets} |-> StartCommand(n)])],
     [makeOpEngineExecContext EXCEPT
        !.hostsWithLatestCatalog = <<Targets[1]>>,
        !.nmaVDatabase = [HostNodesMap |-> [h \in {Targets[1]} |-> CatalogNodes]]],
     makeOpEngineExecContext,
     [makeOpEngineExecContext EXCEPT
        !.hostsWithLatestCatalog = <<Targets[2]>>,
        !.nmaVDatabase = [HostNodesMap |-> [h \in {Targets[1]} |-> CatalogNodes]]]}

InitEngine ==
    /\ pc = "prepare"
    /\ \E instructions \in EngineInstructionLists, ctx \in EngineExecContexts :
          clusterOpEngine = [makeClusterOpEngine(1, instructions) EXCEPT !.execContext = ctx]
    /\ trace = <<>>
    /\ options = OptionsWith("db", "s3://bucket/db", <<>>, <<>>, FALSE, NoPolicy)
    /\ ret = NoRet
    /\ found = NoFound
    /\ RealignIdle
    /\ OpIdle

\* the operation the engine is at, and its place in the list
opIndex == clusterOpEngine.done + 1
instruction == clusterOpEngine.instructions[opIndex]

\* the engine records a phase it has run to its end
Phase(index, phase, err) == [op |-> index, phase |-> phase, failed |-> err # NilErr]

\* the engine stops the run at a phase that returned an error, the engine
\* going on after a failed execute
stopsRun_PrepareOnly(phase, err) == phase = "prepare" /\ err # NilErr

\* the engine stops the run at a phase that returned an error
stopsRun(phase, err) == err # NilErr

\* the run returns the phase's error wrapped with the operation's name
StopRun(phase, err) ==
    /\ runError' = Wrap(phase, Wrap(instruction.name, err))
    /\ pc' = "returned"

\* the engine runs the operation's prepare
EnginePrepare ==
    /\ pc = "prepare"
    /\ LET r == IF instruction.name = "NMAStartNodeOp"
                THEN prepare(instruction, clusterOpEngine.execContext)
                ELSE healthPrepare(instruction)
       IN  IF r.outcome = "panic"
           THEN /\ pc' = "panicked"
                /\ UNCHANGED <<curOp, dispatcher, phaseLog, runError>>
           ELSE /\ phaseLog' = Append(phaseLog, Phase(opIndex, "prepare", r.err))
                /\ curOp' = r.op
                /\ dispatcher' = IF r.setup THEN setup(instruction.hosts) ELSE dispatcher
                /\ IF stopsRun("prepare", r.err)
                   THEN StopRun("prepare", r.err)
                   ELSE /\ pc' = "execute"
                        /\ UNCHANGED runError
    /\ UNCHANGED <<options, ret, found, engineVars, realignVars>>

\* op.runExecute: the dispatcher issues every request of the collection
RunExecute ==
    /\ pc = "execute"
    /\ dispatcher' = [dispatcher EXCEPT !.pending = DOMAIN curOp.RequestCollection]
    /\ curOp' = [curOp EXCEPT !.ResultCollection = EmptyMap]
    /\ pc' = "runExecute"
    /\ UNCHANGED <<options, ret, found, engineVars, realignVars, phaseLog, runError>>

\* a host answers, or its request fails or times out: its result is collected
HostResponds ==
    /\ pc = "runExecute"
    /\ \E h \in dispatcher.pending, kind \in ResultKinds :
          /\ curOp' = [curOp EXCEPT
                          !.ResultCollection = MapPut(@, h, hostHTTPResult(h, kind))]
          /\ dispatcher' = [dispatcher EXCEPT !.pending = @ \ {h}]
    /\ UNCHANGED <<pc, options, ret, found, engineVars, realignVars, phaseLog, runError>>

\* op.runExecute returns once no request is in flight
runExecuteReturned == dispatcher.pending = {}

\* return op.processResult(execContext), and the engine's step on its error
ProcessResult ==
    LET allErrs == processResult(curOp.ResultCollection)
    IN  /\ curOp' = [curOp EXCEPT
                        !.processed = [done |-> TRUE, err |-> allErrs,
                                       hosts |-> DOMAIN curOp.ResultCollection]]
        /\ phaseLog' = Append(phaseLog, Phase(opIndex, "execute", allErrs))
        /\ IF stopsRun("execute", allErrs)
           THEN StopRun("execute", allErrs)
           ELSE /\ pc' = "finalize"
                /\ UNCHANGED runError
        /\ UNCHANGED <<options, ret, found, engineVars, realignVars, dispatcher>>

\* execute calling processResult without awaiting runExecute
Execute_NotAwaited ==
    /\ pc = "runExecute"
    /\ ProcessResult

\* execute: processResult once runExecute has returned
Execute ==
    /\ pc = "runExecute"
    /\ runExecuteReturned
    /\ ProcessResult

\* finalize, and the engine moving to the next operation or returning
EngineFinalize ==
    /\ pc = "finalize"
    /\ phaseLog' = Append(phaseLog, Phase(opIndex, "finalize", NilErr))
    /\ clusterOpEngine' = [clusterOpEngine EXCEPT !.done = @ + 1]
    /\ pc' = IF opIndex = Len(clusterOpEngine.instructions) THEN "returned" ELSE "prepare"
    /\ UNCHANGED <<options, ret, found, trace, realignVars, curOp, dispatcher, runError>>

NextEngine ==
    \/ EnginePrepare
    \/ RunExecute
    \/ HostResponds
    \/ Execute
    \/ EngineFinalize

SpecEngine == InitEngine /\ [][NextEngine]_vars

(***************************************************************************)
(* Properties of the engine run.                                           *)
(***************************************************************************)
PhaseNames == <<"prepare", "execute", "finalize">>
LastPhase == phaseLog[Len(phaseLog)]

\* C8: the phases run are those of the operations in list order, each
\* operation's prepare, execute and finalize; a failing phase is a prepare
\* or an execute, it is the last phase the run executes, so no phase of a
\* later operation runs, and the run returns an error; a run that returns
\* no error has run every phase of every operation.
C8_StopOnFirstFailure ==
    /\ \A i \in 1..Len(phaseLog) :
          /\ phaseLog[i].op = ((i - 1) \div 3) + 1
          /\ phaseLog[i].op <= Len(clusterOpEngine.instructions)
          /\ phaseLog[i].phase = PhaseNames[((i - 1) % 3) + 1]
          /\ phaseLog[i].failed =>
                /\ i = Len(phaseLog)
                /\ phaseLog[i].phase \in {"prepare", "execute"}
                /\ pc = "returned"
                /\ runError # NilErr
    /\ (pc = "returned" /\ runError = NilErr) =>
          /\ Len(phaseLog) = 3 * Len(clusterOpEngine.instructions)
          /\ ~LastPhase.failed
    /\ (pc = "returned" /\ runError # NilErr) => LastPhase.failed

\* a run of two operations has returned the error of the first one's execute
C8_Witness ==
    /\ pc = "returned"
    /\ runError # NilErr
    /\ Len(clusterOpEngine.instructions) = 2
    /\ Len(phaseLog) = 2
    /\ LastPhase = [op |-> 1, phase |-> "execute", failed |-> TRUE]

\* the hosts whose result is a failure: not passing, or passing with a body
\* that does not decode or a return code other than 0
HostFails(result) ==
    \/ result.err # NilErr
    \/ ~result.content.decodable
    \/ result.content.return_code # 0
FailingHosts == {h \in DOMAIN curOp.ResultCollection : HostFails(curOp.ResultCollection[h])}

\* C9: once processResult of the start-node operation has returned, its
\* error is nil exactly when no host fails; otherwise it joins as many
\* errors as hosts fail, the error of every non-passing host among them and
\* no error of a host that succeeded; when B alone fails among A, B, C the
\* joined error is B's one error.
C9_PerHostAggregation ==
    (curOp.name = "NMAStartNodeOp" /\ curOp.processed.done) =>
        LET err == curOp.processed.err
            ResultCollection == curOp.ResultCollection
        IN  /\ err = NilErr <=> FailingHosts = {}
            /\ FailingHosts # {} =>
                  /\ err.kind = "joined"
                  /\ BagCardinality(err.errs) = Cardinality(FailingHosts)
                  /\ \A h \in FailingHosts :
                        ResultCollection[h].err # NilErr
                            => BagIn(ResultCollection[h].err, err.errs)
                  /\ \A e \in BagToSet(err.errs) :
                        "host" \in DOMAIN e => e.host \in FailingHosts
            /\ (DOMAIN ResultCollection = {"A", "B", "C"} /\ FailingHosts = {"B"}) =>
                  /\ BagCardinality(err.errs) = 1
                  /\ ResultCollection["B"].err # NilErr
                        => err.errs = SetToBag({ResultCollection["B"].err})

\* the start-node operation has processed the results of A, B and C: A is
\* unreachable, B answered a non-zero return code, C succeeded
C9_Witness ==
    /\ curOp.name = "NMAStartNodeOp"
    /\ curOp.processed.done
    /\ DOMAIN curOp.ResultCollection = {"A", "B", "C"}
    /\ FailingHosts = {"A", "B"}
    /\ curOp.ResultCollection["A"].err # NilErr
    /\ curOp.ResultCollection["B"].content.return_code # 0

OpHosts == {curOp.hosts[i] : i \in 1..Len(curOp.hosts)}

\* C10: while runExecute runs every target host has exactly one request in
\* flight or one result collected, whatever the other hosts' results are;
\* processResult sees the results of every target host, and so do finalize
\* and the return of the run.
C10_ConcurrencyBoundary ==
    /\ pc = "runExecute" =>
          /\ dispatcher.pending \cup DOMAIN curOp.ResultCollection = OpHosts
          /\ dispatcher.pending \cap DOMAIN curOp.ResultCollection = {}
    /\ curOp.processed.done =>
          /\ curOp.processed.hosts = OpHosts
          /\ DOMAIN curOp.ResultCollection = OpHosts
          /\ dispatcher.pending = {}
    /\ (pc = "finalize" \/ (pc = "returned" /\ ~LastPhase.failed)) =>
          /\ curOp.processed.done
          /\ DOMAIN curOp.ResultCollection = OpHosts

\* results processed with one host timed out, one unreachable and one
\* answering
C10_Witness ==
    /\ curOp.processed.done
    /\ curOp.processed.hosts = OpHosts
    /\ \E a, b, c \in OpHosts :
          /\ curOp.ResultCollection[a].err.kind = "error"
          /\ curOp.ResultCollection[a].err.msg = "timeout"
          /\ curOp.ResultCollection[b].err.kind = "error"
          /\ curOp.ResultCollection[b].err.msg = "unreachable"
          /\ curOp.ResultCollection[c].err = NilErr

(***************************************************************************)
(* VSetConfigurationParameters: validation, the instruction list and its   *)
(* one engine run.                                                         *)
(***************************************************************************)
\* VSetConfigurationParameterOptions as the caller fills them
SetConfigOptionsWith(dbName, rawHosts, hostList, userName, password, certAndKey, configParameter) ==
    [DBName |-> dbName, RawHosts |-> rawHosts, Hosts |-> hostList,
     UserName |-> userName, Password |-> password, usePassword |-> FALSE,
     Cert |-> certAndKey, Key |-> certAndKey,
     ConfigParameter |-> configParameter, Value |-> "1", Level |-> "", Sandbox |-> ""]

\* what the machine the command runs on decides: whether key and
\* certificate files are in the default paths, whether the current user's
\* name can be read
Environments == [certFiles : BOOLEAN, currentUser : BOOLEAN]

\* opt.validateBaseOptions(commandSetConfigurationParameter, logger)
validateBaseOptions(o) ==
    IF o.DBName = "" THEN Errorf("must specify a database name")
    ELSE ValidateName(o.DBName)

\* validateExtraOptions
validateExtraOptions(o) ==
    IF o.ConfigParameter = "" THEN Errorf("configuration parameter must not be empty")
    ELSE NilErr

\* VSetConfigurationParameterOptions.validateParseOptions
setConfigValidateParseOptions(o, env) ==
    IF validateBaseOptions(o) # NilErr THEN validateBaseOptions(o)
    ELSE IF o.Password.isNil /\ (o.Cert = "" \/ o.Key = "") /\ ~env.certFiles
    THEN Errorf("must provide a password, key and certificates explicitly, or key and certificate files in the default paths")
    ELSE validateExtraOptions(o)

\* VSetConfigurationParameterOptions.analyzeOptions: the options as it
\* leaves them, and its error
setConfigAnalyzeOptions(o) ==
    IF Len(o.RawHosts) > 0
    THEN LET r == ResolveRawHostsToAddresses(o.RawHosts)
         IN  [options |-> [o EXCEPT !.Hosts = r.hosts], err |-> r.err]
    ELSE [options |-> o, err |-> NilErr]

\* opt.setUsePassword(log)
setUsePassword(o) == [options |-> [o EXCEPT !.usePassword = ~o.Password.isNil], err |-> NilErr]

\* opt.validateUserName(log): an empty user name is replaced by the current
\* user's
validateUserName(o, env) ==
    IF o.UserName # "" THEN [options |-> o, err |-> NilErr]
    ELSE IF env.currentUser
    THEN [options |-> [o EXCEPT !.UserName = "current user"], err |-> NilErr]
    ELSE [options |-> o, err |-> Errorf("unable to find user name")]

\* VSetConfigurationParameterOptions.validateAnalyzeOptions
setConfigValidateAnalyzeOptions(o, env) ==
    IF setConfigValidateParseOptions(o, env) # NilErr
    THEN [options |-> o, err |-> setConfigValidateParseOptions(o, env)]
    ELSE IF setConfigAnalyzeOptions(o).err # NilErr
    THEN setConfigAnalyzeOptions(o)
    ELSE validateUserName(setUsePassword(setConfigAnalyzeOptions(o).options).options, env)

SetConfigFactories == {"makeHTTPSGetUpNodesOp", "makeNMASetConfigurationParameterOp"}

\* mutation: the list holds the operations in the order they are made
produceSetConfigurationParameterInstructions_ConstructionOrder(o, failing) ==
    LET httpsGetUpNodesOp == Op("HTTPSGetUpNodesOp", o.Hosts, NoPath, EmptyMap)
        nmaHealthOp == Op("NMAHealthOp", o.Hosts, NoPath, EmptyMap)
        nmaSetConfigOp == Op("NMASetConfigurationParameterOp", o.Hosts, NoPath, EmptyMap)
    IN  IF failing \in SetConfigFactories
        THEN [instructions |-> <<>>, err |-> FactoryErr(failing)]
        ELSE [instructions |-> <<httpsGetUpNodesOp, nmaHealthOp, nmaSetConfigOp>>,
              err |-> NilErr]

\* produceSetConfigurationParameterInstructions
produceSetConfigurationParameterInstructions(o, failing) ==
    LET httpsGetUpNodesOp == Op("HTTPSGetUpNodesOp", o.Hosts, NoPath, EmptyMap)
        nmaHealthOp == Op("NMAHealthOp", o.Hosts, NoPath, EmptyMap)
        nmaSetConfigOp == Op("NMASetConfigurationParameterOp", o.Hosts, NoPath, EmptyMap)
    IN  IF failing \in SetConfigFactories
        THEN [instructions |-> <<>>, err |-> FactoryErr(failing)]
        ELSE [instructions |-> <<nmaHealthOp, httpsGetUpNodesOp, nmaSetConfigOp>>,
              err |-> NilErr]

SetConfigRawHostLists == {<<>>, <<HostNames[1]>>, <<HostNames[2], HostNames[1]>>, <<"no.such.host">>}
SetConfigHostLists == {<<>>, <<HostNames[1], HostNames[2]>>}

InitSetConfig ==
    /\ pc = "setConfigValidate"
    /\ \E dbName \in {"", "db"}, rawHosts \in SetConfigRawHostLists,
          hostList \in SetConfigHostLists, userName \in {"", "dbadmin"},
          password \in {Nil, NonNil(<<"secret">>)}, certAndKey \in {"", "pem"},
          configParameter \in {"", "MaxClientSessions"} :
          options = SetConfigOptionsWith(dbName, rawHosts, hostList, userName,
                                         password, certAndKey, configParameter)
    /\ ret = NoRet
    /\ found = NoFound
    /\ EngineIdle
    /\ RealignIdle
    /\ OpIdle

\* return err
SetConfigReturn(err) ==
    /\ ret' = [ret EXCEPT !.err = err]
    /\ pc' = "done"

\* err := options.validateAnalyzeOptions(vcc.Log)
SetConfigValidateAnalyzeOptions ==
    /\ pc = "setConfigValidate"
    /\ \E env \in Environments :
          LET r == setConfigValidateAnalyzeOptions(options, env)
          IN  /\ options' = r.options
              /\ IF r.err # NilErr
                 THEN SetConfigReturn(r.err)
                 ELSE pc' = "setConfigProduce" /\ ret' = ret
    /\ UNCHANGED <<found, engineVars, realignVars, opVars>>

\* produceSetConfigurationParameterInstructions and makeClusterOpEngine
ProduceSetConfigurationParameterInstructions ==
    /\ pc = "setConfigProduce"
    /\ \E failing \in SetConfigFactories \cup {"none"} :
          LET r == produceSetConfigurationParameterInstructions(options, failing)
          IN  IF r.err # NilErr
              THEN /\ SetConfigReturn(Wrap("fail to produce instructions,", r.err))
                   /\ UNCHANGED clusterOpEngine
              ELSE /\ clusterOpEngine' = makeClusterOpEngine(clusterOpEngine.id + 1, r.instructions)
                   /\ pc' = "setConfigRun"
                   /\ ret' = ret
    /\ UNCHANGED <<options, found, trace, realignVars, opVars>>

\* clusterOpEngine.run: the next operation of the list runs and succeeds
SetConfigOpSucceeds ==
    /\ pc = "setConfigRun"
    /\ ~RunComplete
    /\ trace' = Append(trace, Executed(NextOp, TRUE))
    /\ clusterOpEngine' = [clusterOpEngine EXCEPT !.done = @ + 1]
    /\ UNCHANGED <<pc, options, ret, found, realignVars, opVars>>

\* clusterOpEngine.run: the next operation fails, the run returns its error
\* and VSetConfigurationParameters returns it wrapped
SetConfigOpFails ==
    /\ pc = "setConfigRun"
    /\ ~RunComplete
    /\ trace' = Append(trace, Executed(NextOp, FALSE))
    /\ SetConfigReturn(Wrap("fail to set configuration parameter:",
                            [kind |-> "error", msg |-> "operation failed", op |-> NextOp.name]))
    /\ UNCHANGED <<options, found, clusterOpEngine, realignVars, opVars>>

\* the run has returned without error: return nil
SetConfigRunReturns ==
    /\ pc = "setConfigRun"
    /\ RunComplete
    /\ SetConfigReturn(NilErr)
    /\ UNCHANGED <<options, found, engineVars, realignVars, opVars>>

NextSetConfig ==
    \/ SetConfigValidateAnalyzeOptions
    \/ ProduceSetConfigurationParameterInstructions
    \/ SetConfigOpSucceeds
    \/ SetConfigOpFails
    \/ SetConfigRunReturns

SpecSetConfig == InitSetConfig /\ [][NextSetConfig]_vars

\* the two workflows side by side: an invocation of either
InitWorkflows == Init \/ InitSetConfig
NextWorkflows == Next \/ NextSetConfig
SpecWorkflows == InitWorkflows /\ [][NextWorkflows]_vars

(***************************************************************************)
(* Properties of the two workflows.                                        *)
(***************************************************************************)
\* C11: when validateAnalyzeOptions returns an error the workflow's next
\* step is its return, with that error unwrapped, no engine made and no
\* operation run; VReviveDatabase returns the empty dbInfo and the nil
\* pointer; a workflow that has returned takes no further step; and as long
\* as no engine has been made no operation has run.
C11_ValidationBeforeNetwork ==
    /\ [](clusterOpEngine.id = 0 => (trace = <<>> /\ clusterOpEngine.instructions = <<>>))
    /\ [][/\ pc = "validate" =>
               LET r == validateAnalyzeOptions(options)
               IN  r.err # NilErr =>
                      /\ pc' = "done"
                      /\ ret' = [dbInfo |-> "", vdbPtr |-> "nil", err |-> r.err]
                      /\ clusterOpEngine' = makeClusterOpEngine(0, <<>>)
                      /\ trace' = <<>>
          /\ pc = "setConfigValidate" =>
               \E env \in Environments :
                  LET r == setConfigValidateAnalyzeOptions(options, env)
                  IN  /\ options' = r.options
                      /\ r.err = NilErr => pc' = "setConfigProduce"
                      /\ r.err # NilErr =>
                            /\ pc' = "done"
                            /\ ret'.err = r.err
                            /\ clusterOpEngine' = makeClusterOpEngine(0, <<>>)
                            /\ trace' = <<>>
          /\ pc # "done"]_vars

\* VReviveDatabase has returned the error of a host name that does not
\* resolve
C11_Witness ==
    /\ pc = "done"
    /\ "DisplayOnly" \in DOMAIN options
    /\ ret = [dbInfo |-> "", vdbPtr |-> "nil", err |-> Errorf("cannot resolve host")]
    /\ clusterOpEngine.id = 0
    /\ trace = <<>>

\* the engine runs an invocation makes before the mutating one
InfoRuns == IF isRestoreEnabled(options) THEN 2 ELSE 1

\* no realignment has been applied: no new topology, no old hosts, every
\* node still at the address it was discovered at
NotRealigned ==
    /\ newVDB = makeVCoordinationDatabase
    /\ oldHosts = <<>>
    /\ \A id \in DOMAIN nodes : nodes[id].Address = HostNames[id]

\* C12: with display-only set, whether or not a restore is asked for, no
\* mutating operation is ever run, no engine is made beyond the
\* information-gathering ones, realignment is never applied, and a return
\* without error comes after the information-gathering runs have completed.
C12_DisplayOnlyNeverMutates ==
    options.DisplayOnly =>
        /\ \A i \in 1..Len(trace) : trace[i].op.name \notin MutatingOps
        /\ \A i \in 1..Len(clusterOpEngine.instructions) :
              clusterOpEngine.instructions[i].name \notin MutatingOps
        /\ clusterOpEngine.id <= InfoRuns
        /\ pc # "runRevive"
        /\ NotRealigned
        /\ (pc = "done" /\ ret.err = NilErr) =>
              /\ clusterOpEngine.id = InfoRuns
              /\ RunComplete
              /\ \A i \in 1..Len(trace) : trace[i].ok

\* a display-only restore has returned without error after its two runs,
\* three nodes discovered
C12_Witness ==
    /\ options.DisplayOnly
    /\ isRestoreEnabled(options)
    /\ pc = "done"
    /\ ret.err = NilErr
    /\ clusterOpEngine.id = 2
    /\ Cardinality(DOMAIN nodes) = 3

\* C13: whenever VReviveDatabase returns without error, display-only or
\* not, the dbInfo it returns is the description the download operation
\* read from communal storage.
C13_ReturnsDiscoveredDBInfo ==
    (pc = "done" /\ ret.err = NilErr) => ret.dbInfo = DiscoveredDBInfo

HostListErr == Errorf("must specify a host or host list")

\* every operation built or run so far targets exactly the hosts of hostList
AllOpsTarget(hostList) ==
    /\ \A i \in 1..Len(clusterOpEngine.instructions) :
          clusterOpEngine.instructions[i].hosts = hostList
    /\ \A i \in 1..Len(trace) : trace[i].op.hosts = hostList

\* C14: validation returns the host-list error only for an empty host list
\* without display-only, and always then once the database name is valid;
\* with display-only and an empty host list, the other options valid,
\* validation passes, the raw host list becomes "localhost" alone and the
\* target hosts its one address; every operation built from then on targets
\* that host alone.
C14_HostListRequirement ==
    /\ [](options.RawHosts = <<"localhost">> =>
             /\ pc # "done" => options.Hosts = <<ResolveToOneIP("localhost")>>
             /\ AllOpsTarget(<<ResolveToOneIP("localhost")>>))
    /\ [][pc = "validate" =>
            /\ ret'.err = HostListErr =>
                  (Len(options.RawHosts) = 0 /\ ~options.DisplayOnly)
            /\ (Len(options.RawHosts) = 0 /\ ~options.DisplayOnly /\ options.DBName \in ValidNames) =>
                  (pc' = "done" /\ ret'.err = HostListErr)
            /\ (/\ Len(options.RawHosts) = 0
                /\ options.DisplayOnly
                /\ options.DBName \in ValidNames
                /\ ValidateCommunalStorageLocation(options.CommunalStorageLocation) = NilErr
                /\ validateRestoreOptions(options) = NilErr) =>
                  /\ pc' = "producePre"
                  /\ options'.RawHosts = <<"localhost">>
                  /\ options'.Hosts = <<ResolveToOneIP("localhost")>>]_vars

\* a display-only invocation without hosts has run its operations on
\* localhost and returned without error
C14_Witness ==
    /\ pc = "done"
    /\ ret.err = NilErr
    /\ options.DisplayOnly
    /\ options.RawHosts = <<"localhost">>
    /\ Len(trace) = 3
    /\ AllOpsTarget(<<ResolveToOneIP("localhost")>>)

\* the message VReviveDatabase wraps the error of each stage in
ProducePreMsg == "fail to produce pre-revive database instructions"
RunPreMsg == "fail to collect the information of database in revive_db"
FindMsg == "fail to find a restore point as specified"
ProduceRestoreMsg == "fail to produce restore-specific instructions"
RunRestoreMsg == "fail to collect the restore-specific information of database in revive_db"
ProduceReviveMsg == "fail to produce revive database instructions"
RunReviveMsg == "fail to revive database"

AllRunOk == \A i \in 1..Len(trace) : trace[i].ok

\* the last operation run failed, in the engine-th run, and every one before
\* it succeeded
LastRunFailed(engine) ==
    /\ trace # <<>>
    /\ ~trace[Len(trace)].ok
    /\ trace[Len(trace)].engine = engine
    /\ \A i \in 1..(Len(trace) - 1) : trace[i].ok
    /\ clusterOpEngine.id = engine

\* the state VReviveDatabase is in when it returns the error of a stage
StoppedAt(msg) ==
    CASE msg = ProducePreMsg -> clusterOpEngine.id = 0 /\ trace = <<>>
      [] msg = RunPreMsg -> LastRunFailed(1)
      [] msg = FindMsg ->
            /\ clusterOpEngine.id = 1 /\ RunComplete /\ AllRunOk
            /\ found.err # NilErr /\ ret.err.cause = found.err
      [] msg = ProduceRestoreMsg ->
            clusterOpEngine.id = 1 /\ RunComplete /\ AllRunOk /\ found.err = NilErr
      [] msg = RunRestoreMsg -> LastRunFailed(2)
      [] msg = ProduceReviveMsg ->
            clusterOpEngine.id = InfoRuns /\ RunComplete /\ AllRunOk
      [] msg = RunReviveMsg -> LastRunFailed(InfoRuns + 1)
      [] OTHER -> FALSE

\* C15: an operation that failed is the last one run and VReviveDatabase has
\* then returned; a resolution error is returned at once; an error returned
\* unwrapped is returned before any engine is made; every other error wraps
\* a non-nil cause in the message of the stage that failed, and the engines
\* made and the operations run are those up to that stage and no further; no operation is run twice; a new engine is made
\* only when every operation run so far succeeded; a returned invocation
\* takes no further step.
C15_AbortAndPropagate ==
    /\ [](/\ \A i \in 1..Len(trace) :
                ~trace[i].ok => (i = Len(trace) /\ pc = "done" /\ ret.err # NilErr)
          /\ found.err # NilErr => (pc = "done" /\ ret.err # NilErr)
          /\ (pc = "done" /\ ret.err # NilErr /\ ret.vdbPtr = "&vdb") =>
                ret.err.kind = "wrapped"
          /\ (pc = "done" /\ ret.err # NilErr /\ ret.err.kind # "wrapped") =>
                (clusterOpEngine.id = 0 /\ trace = <<>>)
          /\ (pc = "done" /\ ret.err.kind = "wrapped") =>
                (ret.err.cause # NilErr /\ StoppedAt(ret.err.msg))
          /\ (pc = "done" /\ ret.err = NilErr) => (AllRunOk /\ RunComplete)
          /\ \A i, j \in 1..Len(trace) :
                (i < j) => /\ trace[i].op.name # trace[j].op.name
                           /\ trace[i].engine <= trace[j].engine)
    /\ [][/\ pc # "done"
          /\ clusterOpEngine'.id # clusterOpEngine.id =>
                /\ clusterOpEngine'.id = clusterOpEngine.id + 1
                /\ AllRunOk
                /\ (clusterOpEngine.id = 0 \/ RunComplete)]_vars

\* the restore-specific run has failed after the first run and the
\* resolution succeeded, and its error has been returned
C15_Witness ==
    /\ pc = "done"
    /\ ret.err.kind = "wrapped"
    /\ ret.err.msg = RunRestoreMsg
    /\ LastRunFailed(2)
    /\ Len(trace) >= 4

(***************************************************************************)
(* The match set of restore-point resolution.                              *)
(***************************************************************************)
\* C16: once the policy is validated, the entries the filter of
\* findSpecifiedRestorePoint counts are exactly those whose archive is the
\* policy's and whose identifier is the supplied identifier, or whose index
\* is the supplied index; an entry of another archive is never counted, and
\* no entry is counted for agreeing with the selector left unset.
C16_MatchSet ==
    (pc \in {"find", "resolved"} /\ ExactlyOneSupplied(options)) =>
        \A i \in 1..Len(restorePoints) :
            LET rp == restorePoints[i]
            IN  /\ restorePointFound(options, rp) <=> i \in MatchingEntries(options, restorePoints)
                /\ rp.Archive # options.RestorePoint.Archive => ~restorePointFound(options, rp)

(***************************************************************************)
(* The order of a restore.                                                 *)
(***************************************************************************)
\* the first list of a restore, by name
RestoreFirstList ==
    <<"NMAHealthOp", "HTTPSCheckRunningDBOp">>
        \o (IF options.DisplayOnly THEN <<>> ELSE <<"NMADownloadFileOpForRestoreLeaseCheck">>)
        \o <<"NMAShowRestorePointsOp">>

\* every operation of a restore, by name, in the order of the three lists
RestoreSequence ==
    RestoreFirstList \o <<"NMADownloadFileOpForRestore">>
        \o (IF options.DisplayOnly THEN <<>>
            ELSE <<"NMAPrepareDirectoriesOp", "NMANetworkProfileOp", "NMALoadRemoteCatalogOp">>)

\* the engine run the i-th operation of a restore belongs to
RestoreRunOf(i) ==
    IF i <= Len(RestoreFirstList) THEN 1
    ELSE IF i = Len(RestoreFirstList) + 1 THEN 2 ELSE 3

\* C17: in a restore the operations run are, in order, health check,
\* running-database check, the lease-check download unless display-only, and
\* the restore-point listing on the initiator alone, in the first run; the
\* restore download in a second run; the mutating operations in a third. No
\* download for revive is run.  The second engine is made only after the
\* first run succeeded and resolution returned an identifier without error,
\* and its download reads the description of that identifier; the third is
\* made only after the second run succeeded.
C17_RestoreOrdering ==
    (isRestoreEnabled(options) /\ pc # "validate") =>
        /\ IsPrefix(TraceNames, RestoreSequence)
        /\ \A i \in 1..Len(trace) :
              /\ trace[i].engine = RestoreRunOf(i)
              /\ i < Len(trace) => trace[i].ok
              /\ trace[i].op.name = "NMAShowRestorePointsOp"
                    => trace[i].op.hosts = <<getInitiator(options.Hosts)>>
              /\ trace[i].op.name = "NMADownloadFileOpForRestoreLeaseCheck"
                    => trace[i].op.sourceFilePath = getCurrConfigFilePath(options)
              /\ trace[i].op.name = "NMADownloadFileOpForRestore"
                    => trace[i].op.sourceFilePath =
                           getRestorePointConfigFilePath(options, found.id)
        /\ clusterOpEngine.id = 1 =>
              [i \in 1..Len(clusterOpEngine.instructions) |->
                  clusterOpEngine.instructions[i].name] = RestoreFirstList
        /\ clusterOpEngine.id >= 2 =>
              /\ found.err = NilErr
              /\ Len(trace) >= Len(RestoreFirstList)
              /\ \A i \in 1..Len(RestoreFirstList) : trace[i].ok
        /\ clusterOpEngine.id = 3 =>
              /\ ~options.DisplayOnly
              /\ Len(trace) >= Len(RestoreFirstList) + 1
              /\ trace[Len(RestoreFirstList) + 1].ok

\* a restore onto three hosts has returned without error after its eight
\* operations
C17_Witness ==
    /\ isRestoreEnabled(options)
    /\ ~options.DisplayOnly
    /\ pc = "done"
    /\ ret.err = NilErr
    /\ Len(options.Hosts) = 3
    /\ TraceNames = RestoreSequence
    /\ Len(trace) = 8

(***************************************************************************)
(* SpecPrepare: prepare of one start-node operation, built by either       *)
(* factory for a bounded target list, against a bounded context.           *)
(***************************************************************************)
\* longest target list of the operation prepared
MaxTargetList == 2

PrepareHostLists == SeqsUpTo(TargetSet, MaxTargetList)

\* the topologies the operation is built with: every target hosting its
\* node, or the first target alone
PrepareVDBs ==
    {EngineVDB,
     [HostNodeMap |-> [h \in {Targets[1]} |-> TargetNode(1)]]}

PrepareOps ==
    {makeNMAStartNodeOp(hosts) : hosts \in PrepareHostLists}
        \cup {makeNMAStartNodeOpWithVDB(hosts, v) : hosts \in PrepareHostLists, v \in PrepareVDBs}

\* startup command maps: none, one command per node, the first node's alone
PrepareStartupCommandMaps ==
    {Nil,
     NonNil([n \in {TargetNode(i).Name : i \in 1..NumTargets} |-> StartCommand(n)]),
     NonNil([n \in {TargetNode(1).Name} |-> StartCommand(n)])}

\* what the catalog editor read: nothing, every target's node from the
\* first target, the first target's node alone from the first target
PrepareHostNodesMaps ==
    {EmptyMap,
     [h \in {Targets[1]} |-> CatalogNodes],
     [h \in {Targets[1]} |-> SubSeq(CatalogNodes, 1, 1)]}

PrepareExecContexts ==
    {[makeOpEngineExecContext EXCEPT
        !.startupCommandMap = m,
        !.hostsWithLatestCatalog = latest,
        !.nmaVDatabase = [HostNodesMap |-> hnm]] :
        m \in PrepareStartupCommandMaps,
        latest \in {<<>>, <<Targets[1]>>, <<Targets[2], Targets[1]>>},
        hnm \in PrepareHostNodesMaps}

InitPrepare ==
    /\ pc = "startNodePrepare"
    /\ \E o \in PrepareOps, ctx \in PrepareExecContexts :
          /\ curOp = o
          /\ clusterOpEngine = [makeClusterOpEngine(1, <<o>>) EXCEPT !.execContext = ctx]
    /\ \E d \in {makeHTTPRequestDispatcher, setup(<<Targets[NumTargets]>>)} : dispatcher = d
    /\ phaseLog = <<>>
    /\ runError = NilErr
    /\ trace = <<>>
    /\ options = OptionsWith("db", "s3://bucket/db", <<>>, <<>>, FALSE, NoPolicy)
    /\ ret = NoRet
    /\ found = NoFound
    /\ RealignIdle

\* op.prepare(execContext): it returns nil or an error, or the process
\* panics
StartNodePrepare ==
    /\ pc = "startNodePrepare"
    /\ LET r == prepare(curOp, clusterOpEngine.execContext)
       IN  IF r.outcome = "panic"
           THEN /\ pc' = "panicked"
                /\ UNCHANGED <<curOp, dispatcher, runError>>
           ELSE /\ curOp' = r.op
                /\ dispatcher' = IF r.setup THEN setup(curOp.hosts) ELSE dispatcher
                /\ runError' = r.err
                /\ pc' = "prepared"
    /\ UNCHANGED <<options, ret, found, engineVars, realignVars, phaseLog>>

\* op.runExecute after a prepare that returned nil: the requests are issued
StartNodeRunExecute ==
    /\ pc = "prepared"
    /\ runError = NilErr
    /\ dispatcher' = [dispatcher EXCEPT !.pending = DOMAIN curOp.RequestCollection]
    /\ pc' = "runExecute"
    /\ UNCHANGED <<options, ret, found, engineVars, realignVars, curOp, phaseLog, runError>>

NextPrepare ==
    \/ StartNodePrepare
    \/ StartNodeRunExecute

SpecPrepare == InitPrepare /\ [][NextPrepare]_vars

(***************************************************************************)
(* Properties of the start-node prepare.                                   *)
(***************************************************************************)
engineContext == clusterOpEngine.execContext

\* the context has no startup command map, and no host with the latest
\* catalog or a first such host the catalog editor did not report
NoBootstrap ==
    /\ engineContext.startupCommandMap.isNil
    /\ \/ Len(engineContext.hostsWithLatestCatalog) = 0
       \/ engineContext.hostsWithLatestCatalog[1] \notin DOMAIN engineContext.nmaVDatabase.HostNodesMap

\* C18: prepare of a start-node operation against a context without a
\* startup command map and without a usable bootstrap host returns an
\* error, leaves the dispatcher as it found it and the request collection
\* empty; after a prepare that returned an error no request is in flight.
C18_PrepareFailsWithoutNetwork ==
    /\ [](runError # NilErr =>
             (dispatcher.pending = {} /\ curOp.RequestCollection = EmptyMap))
    /\ [][(pc = "startNodePrepare" /\ NoBootstrap) =>
             /\ pc' = "prepared"
             /\ runError' # NilErr
             /\ dispatcher' = dispatcher
             /\ curOp'.RequestCollection = EmptyMap]_vars

\* prepare for two targets has returned the bootstrap error, the dispatcher
\* still set up for the operation before
C18_Witness ==
    /\ pc = "prepared"
    /\ runError = Errorf("the bootstrap node is not found from the catalog editor information")
    /\ Len(curOp.hosts) = 2
    /\ dispatcher = setup(<<Targets[NumTargets]>>)
    /\ curOp.RequestCollection = EmptyMap

\* the start command the context holds for a target host: that of the
\* host's node in the startup command map, or that of the node at the
\* host's address in the node list of the first host with the latest
\* catalog; nil when the context holds none
CommandFor(host) ==
    IF ~engineContext.startupCommandMap.isNil
    THEN LET HostNodeMap == curOp.vdb.val.HostNodeMap
             startupCommandMap == engineContext.startupCommandMap.val
         IN  IF host \in DOMAIN HostNodeMap /\ HostNodeMap[host].Name \in DOMAIN startupCommandMap
             THEN startupCommandMap[HostNodeMap[host].Name]
             ELSE Nil
    ELSE LET nodesList == engineContext.nmaVDatabase.HostNodesMap[
                              engineContext.hostsWithLatestCatalog[1]]
             at == {i \in 1..Len(nodesList) : nodesList[i].Address = host}
         IN  IF at = {} THEN Nil
             ELSE nodesList[CHOOSE i \in at : \A j \in at : j <= i].StartCommand

PrepareSucceeded == pc \in {"prepared", "runExecute"} /\ runError = NilErr

\* C19: after a prepare that returned nil the request collection holds one
\* request for every target host and for no other, and the body of each is
\* the JSON encoding of the start command the context holds for that host,
\* which is a command: no target is sent an empty body or a null command.
C19_PrepareCompleteness ==
    PrepareSucceeded =>
        /\ DOMAIN curOp.RequestCollection = OpHosts
        /\ \A h \in OpHosts :
              /\ ~CommandFor(h).isNil
              /\ curOp.RequestCollection[h].RequestData = Marshal(CommandFor(h))

(***************************************************************************)
(* The engines of one invocation.                                          *)
(***************************************************************************)
\* C20: an engine is made only when the run before it has returned, and it
\* starts with no operation done and the context of a new engine; a run
\* that has not yet run an operation has the context of a new engine; the
\* restore points are read by resolution from the first engine's context
\* once its run is complete, no later engine's context holds them, and the
\* restore download is built from the identifier resolution returned.
C20_FreshContextPerRun ==
    /\ [](/\ clusterOpEngine.done = 0 => clusterOpEngine.execContext = makeOpEngineExecContext
          /\ clusterOpEngine.id >= 2 => clusterOpEngine.execContext.restorePoints = <<>>
          /\ \A i \in 1..Len(clusterOpEngine.instructions) :
                clusterOpEngine.instructions[i].name = "NMADownloadFileOpForRestore" =>
                    clusterOpEngine.instructions[i].sourceFilePath =
                        getRestorePointConfigFilePath(options, found.id))
    /\ [][/\ clusterOpEngine'.id # clusterOpEngine.id =>
                /\ clusterOpEngine.id = 0 \/ RunComplete
                /\ clusterOpEngine' =
                       makeClusterOpEngine(clusterOpEngine.id + 1, clusterOpEngine'.instructions)
          /\ found' # found =>
                /\ clusterOpEngine.id = 1
                /\ RunComplete
                /\ AllRunOk
                /\ found' = findSpecifiedRestorePoint(options,
                                clusterOpEngine.execContext.restorePoints)
                /\ clusterOpEngine' = clusterOpEngine]_vars

\* the second run of a restore is complete: its engine's context holds the
\* description and no restore point, and the identifier resolved from the
\* first run's context is in the list it ran
C20_Witness ==
    /\ pc = "runRestore"
    /\ RunComplete
    /\ clusterOpEngine.id = 2
    /\ found = [id |-> "id2", err |-> NilErr]
    /\ clusterOpEngine.execContext.restorePoints = <<>>
    /\ clusterOpEngine.execContext.dbInfo = DiscoveredDBInfo

(***************************************************************************)
(* The set-configuration-parameter pipeline.                               *)
(***************************************************************************)
SetConfigPipeline == <<"NMAHealthOp", "HTTPSGetUpNodesOp", "NMASetConfigurationParameterOp">>

\* the names of the operations of a list, in the list's order
OpNames(instructions) == [i \in DOMAIN instructions |-> instructions[i].name]

\* the step in which VSetConfigurationParameters produces its instructions
\* hands the engine it makes exactly the pipeline, or makes no engine and
\* returns the factory's error with the empty list
ProduceStepOfPipeline ==
    pc = "setConfigProduce" =>
        \E failing \in SetConfigFactories \cup {"none"} :
            LET r == produceSetConfigurationParameterInstructions(options, failing)
            IN  \/ /\ r.err = NilErr
                   /\ OpNames(r.instructions) = SetConfigPipeline
                   /\ \A i \in DOMAIN r.instructions : r.instructions[i].hosts = options.Hosts
                   /\ clusterOpEngine' = makeClusterOpEngine(1, r.instructions)
                   /\ pc' = "setConfigRun"
                \/ /\ r.err # NilErr
                   /\ r.instructions = <<>>
                   /\ clusterOpEngine' = clusterOpEngine
                   /\ trace' = trace
                   /\ pc' = "done"
                   /\ ret'.err = Wrap("fail to produce instructions,", r.err)

\* C21: the set-configuration-parameter instruction list is the NMA health
\* check, the get-up-nodes check and the set-configuration-parameter request
\* in that order, whatever the order the operations are made in; one engine
\* runs it, once; when making an operation fails the list returned is empty,
\* no engine is made and nothing is run.
C21_SetConfigPipeline ==
    /\ [](/\ clusterOpEngine.id <= 1
          /\ clusterOpEngine.id = 0 => trace = <<>>
          /\ clusterOpEngine.id = 1 =>
                /\ OpNames(clusterOpEngine.instructions) = SetConfigPipeline
                /\ Len(trace) <= Len(SetConfigPipeline)
                /\ \A i \in DOMAIN trace :
                      /\ trace[i].engine = 1
                      /\ trace[i].op.name = SetConfigPipeline[i]
          /\ (pc = "done" /\ ret.err = NilErr) =>
                /\ clusterOpEngine.id = 1
                /\ Len(trace) = Len(SetConfigPipeline)
                /\ \A i \in DOMAIN trace : trace[i].ok)
    /\ [][ProduceStepOfPipeline]_vars

\* the pipeline has run to its end on one engine and the workflow has
\* returned nil
C21_Witness ==
    /\ pc = "done"
    /\ "ConfigParameter" \in DOMAIN options
    /\ ret.err = NilErr
    /\ clusterOpEngine.id = 1
    /\ OpNames(clusterOpEngine.instructions) = SetConfigPipeline
    /\ Len(trace) = 3
    /\ trace[3].op.name = "NMASetConfigurationParameterOp"

(***************************************************************************)
(* Realignment: its effect on the shared node objects, its failure and its *)
(* determinism.                                                            *)
(***************************************************************************)
\* the step taken is a call of generateReviveVDB that returns no error
RealignStepSucceeds == pc = "generate" /\ pc' = "generated" /\ ret'.err = NilErr

\* the step taken is a call of generateReviveVDB that returns an error
RealignStepFails == pc = "generate" /\ pc' = "generated" /\ ret'.err # NilErr

\* the node objects a reader of the new topology reaches
RealignedNodes == {newVDB.HostNodeMap[h] : h \in DOMAIN newVDB.HostNodeMap}

\* a successful realignment leaves the discovered topology's map, host list
\* and node names as they were, gives every discovered node object the new
\* host paired with its old address, and enters in the new topology, under
\* each new host, a discovered node object whose address is that host
InPlaceEffect ==
    RealignStepSucceeds =>
        /\ vdb' = vdb
        /\ DOMAIN nodes' = DOMAIN nodes
        /\ \A n \in DOMAIN nodes : nodes'[n].Name = nodes[n].Name
        /\ \A n \in DiscoveredNodes :
              \E i \in 1..Len(options.Hosts) :
                  /\ oldHosts'[i] = nodes[n].Address
                  /\ nodes'[n].Address = options.Hosts[i]
        /\ DOMAIN newVDB'.HostNodeMap = {options.Hosts[i] : i \in 1..Len(options.Hosts)}
        /\ \A h \in DOMAIN newVDB'.HostNodeMap :
              /\ newVDB'.HostNodeMap[h] \in DiscoveredNodes
              /\ nodes'[newVDB'.HostNodeMap[h]].Address = h

\* C22: a successful realignment writes the new hosts to the Address of the
\* node objects of the discovered topology, leaves that topology's key set,
\* its host list and every node's name unchanged, and the new topology refers
\* to those same objects: a reader of either topology sees the new addresses.
C22_RealignInPlace == [][InPlaceEffect]_vars

\* three nodes discovered at h1, h2, h3 have been realigned to h3, h1, h2:
\* the discovered topology still has its keys and the objects under them
\* carry the new addresses
C22_Witness ==
    /\ pc = "generated"
    /\ ret.err = NilErr
    /\ options.Hosts = <<"h3", "h1", "h2">>
    /\ DOMAIN vdb.HostNodeMap = {"h1", "h2", "h3"}
    /\ vdb.HostList = <<"h1", "h2", "h3">>
    /\ \E h \in DOMAIN vdb.HostNodeMap : nodes[vdb.HostNodeMap[h]].Address # h
    /\ RealignedNodes = DiscoveredNodes

\* a call of generateReviveVDB with a host count other than the node count
\* returns the mismatch error, an empty new map and no old host, and leaves
\* the discovered topology and every node object as they were
FailureLeavesStateUnchanged ==
    (pc = "generate" /\ Len(options.Hosts) # Cardinality(DOMAIN vdb.HostNodeMap)) =>
        /\ pc' = "generated"
        /\ ret'.err = MismatchError
        /\ newVDB'.HostNodeMap = EmptyMap
        /\ oldHosts' = <<>>
        /\ nodes' = nodes
        /\ vdb' = vdb

\* C23: when the number of new hosts is not the number of discovered nodes,
\* generateReviveVDB returns an error with an empty new host-to-node map and
\* an empty old-host list, and no field of any discovered node is modified.
C23_RealignFailureUnchanged == [][FailureLeavesStateUnchanged]_vars

\* generateReviveVDB has refused two hosts for three nodes: each node is
\* still at the address it was discovered under
C23_Witness ==
    /\ pc = "generated"
    /\ ret.err = MismatchError
    /\ Len(options.Hosts) = 2
    /\ Cardinality(DiscoveredNodes) = 3
    /\ \A h \in DOMAIN vdb.HostNodeMap : nodes[vdb.HostNodeMap[h]].Address = h
    /\ newVDB.HostNodeMap = EmptyMap
    /\ newVDB.HostList = options.Hosts
    /\ oldHosts = <<>>

\* the discovered nodes have pairwise distinct names
DistinctNodeNames ==
    \A m, n \in DiscoveredNodes : m # n => nodes[m].Name # nodes[n].Name

\* no host is given twice in the new host list
NoRepeatedHost ==
    \A i, j \in 1..Len(options.Hosts) : i # j => options.Hosts[i] # options.Hosts[j]

\* what generateReviveVDB can return and leave in the node objects, over the
\* arrangements map iteration and sort.Slice can leave in vNodes
RealignOutcomes ==
    {generateReviveVDB(options, vdb, nodes, vNodes) : vNodes \in sortedVNodes(vdb, nodes)}

\* on inputs with distinct node names and no repeated host, the call has one
\* outcome, and it is the one the step taken leaves
OneOutcome ==
    (pc = "generate" /\ DistinctNodeNames /\ NoRepeatedHost) =>
        /\ Cardinality(RealignOutcomes) = 1
        /\ \A r \in RealignOutcomes :
              /\ newVDB' = r.newVDB
              /\ oldHosts' = r.oldHosts
              /\ nodes' = r.nodes
              /\ ret'.err = r.err

\* C24: for discovered topologies with pairwise distinct node names and new
\* host lists without a repeated host, the new topology and the old-host list
\* are determined by the inputs, whatever order the host-to-node map is
\* iterated in: two executions on equal inputs give equal outputs.
C24_RealignDeterminism == [][OneOutcome]_vars

\* three nodes whose names run against the order of their addresses have
\* been realigned to three distinct hosts
C24_Witness ==
    /\ pc = "generated"
    /\ ret.err = NilErr
    /\ DOMAIN vdb.HostNodeMap = {"h1", "h2", "h3"}
    /\ nodes[vdb.HostNodeMap["h1"]].Name = "v_db_node0003"
    /\ nodes[vdb.HostNodeMap["h2"]].Name = "v_db_node0002"
    /\ nodes[vdb.HostNodeMap["h3"]].Name = "v_db_node0001"
    /\ options.Hosts = <<"h2", "h3", "h1">>
    /\ oldHosts = <<"h3", "h2", "h1">>
    /\ newVDB.HostNodeMap = [h \in {"h1", "h2", "h3"} |->
            IF h = "h2" THEN vdb.HostNodeMap["h3"]
            ELSE IF h = "h3" THEN vdb.HostNodeMap["h2"] ELSE vdb.HostNodeMap["h1"]]

(***************************************************************************)
(* The start-node operation's prepare and the process it runs in.          *)
(***************************************************************************)
\* C25: prepare of a start-node operation made by either factory, in any
\* state of the execution context, ends by returning nil or an error: it
\* never dereferences the topology of an operation that was given none.
C25_PrepareNeverCrashes ==
    /\ pc # "panicked"
    /\ pc = "startNodePrepare" =>
          prepare(curOp, clusterOpEngine.execContext).outcome \in {"ok", "err"}
    /\ pc = "prepared" => runError.kind \in {"nil", "error", "wrapped"}

====
